---- MODULE Spec2Model ----
(***************************************************************************)
(* wavrun: the Textual (TUI) playback controller of core/cli_playback.py   *)
(* with the VLC wrapper of core/player.py.                                 *)
(*                                                                         *)
(* Three threads act on the controller: the UI (event-loop) thread that    *)
(* runs the command handlers, the asyncio tasks and the callbacks posted   *)
(* with call_from_thread; the monitor thread running _progress_loop; and   *)
(* the VLC event thread that delivers MediaPlayerEndReached.  A track is   *)
(* identified by its path, modelled as a number of Tracks; None is 0.      *)
(* Positions in a list are 1-based here: the code's index i is i + 1, and  *)
(* the code's "-1, not found" is 0.                                        *)
(***************************************************************************)
EXTENDS Integers, Sequences, FiniteSets, TLC

\* --------------------------------------------------------------- bounds
\* The number of distinct track paths that exist in the modelled world.
MaxTracks == 2
\* The number of action_next tasks created by asyncio.create_task that may
\* be pending at once.
MaxTasks == 1
\* The number of track completions not yet answered by an advance.
MaxOwed == 1
\* The number of commands the user issues in one run.
MaxCmds == 4
\* The number of songs the command-line player's scan finds.
MaxSongs == 3
\* The number of songs the command-line player's queue holds.
MaxQueue == 1
\* The number of exceptions raised in one run.
MaxFaults == 1
\* The number of distinct callbacks a caller of the backend wrapper registers.
MaxCallbacks == 2

Tracks == 1..MaxTracks
None == 0
MaxSkips == MaxTracks + 1

\* ------------------------------------------------------------ variables
VARIABLES
    full_playlist,      \* self.full_playlist: the catalog, a sequence of paths
    playlist,           \* self.playlist: the (possibly filtered) view
    search,             \* self.search.value: the search term
    on_disk,            \* the paths for which os.path.exists is true
    current_song_path,  \* self.current_song_path
    playing,            \* self.playing
    paused,             \* self.paused
    shuffle,            \* self.shuffle
    repeat_mode,        \* self.repeat_mode
    song_end_flag,      \* self.song_end_flag (threading.Event)
    stop_threads,       \* self.stop_threads
    lock,               \* self._lock: "free" or the thread holding it
    player,             \* self.player: the VLCMusic wrapper and its media player
    vlc_event,          \* a MediaPlayerEndReached event in flight (its track), or None
    poll_pending,       \* call_from_thread(_handle_song_end) posted by _on_song_end
    pc,                 \* the position of the UI thread and of the monitor thread
    path,               \* the local `path` of each thread's running _play_index
    m_idx,              \* the monitor's local current_idx / idx_full
    ui_ft,              \* from_thread of the _play_index running on the UI thread
    ui_old,             \* old_playlist of a handler that swapped in the full playlist
    tasks,              \* pending asyncio tasks running action_next
    cmds,               \* the number of user commands issued so far
    flag_track,         \* history: the track whose completion last set the flag
    m_end,              \* history: the track whose end signal the monitor consumed
    last_cmd,           \* history: the last transport command sent to the backend
    skips,              \* history: consecutive missing-file skips
    owed,               \* history: completions minus advances issued
    cli,                \* the command-line player of main.py: play_music's state
    fault,              \* history: the exceptions raised so far and the last one's place
    calls               \* history: the callbacks the last end event invoked, in order

listVars == <<full_playlist, playlist, search>>
stateVars == <<current_song_path, playing, paused>>
modeVars == <<shuffle, repeat_mode>>
signalVars == <<song_end_flag, vlc_event, poll_pending, flag_track>>
localVars == <<path, m_idx, ui_ft, ui_old>>
histVars == <<m_end, last_cmd, skips, owed>>
outerVars == <<cli, fault, calls>>

\* A command of the user reaches an idle event loop.
UserCommand ==
    /\ pc.ui = "idle"
    /\ cmds < MaxCmds
    /\ cmds' = cmds + 1

vars == <<full_playlist, playlist, search, on_disk, current_song_path, playing,
          paused, shuffle, repeat_mode, song_end_flag, stop_threads, lock,
          player, vlc_event, poll_pending, pc, path, m_idx, ui_ft, ui_old,
          tasks, cmds, flag_track, m_end, last_cmd, skips, owed, cli, fault,
          calls>>

\* -------------------------------------------------------------- helpers
Min(a, b) == IF a < b THEN a ELSE b

\* The position of path p in list s, or 0 (the code's -1) when absent.
IndexOf(s, p) ==
    IF \E i \in 1..Len(s) : s[i] = p
    THEN CHOOSE i \in 1..Len(s) : s[i] = p /\ \A j \in 1..(i - 1) : s[j] # p
    ELSE 0

\* _get_current_index: the position of the current song in the view.
get_current_index(csp, pl) == IF csp = None THEN 0 ELSE IndexOf(pl, csp)

\* _find_song_in_full_playlist: the position of a path in the catalog.
find_song_in_full_playlist(full, p) == IndexOf(full, p)

Range(s) == {s[i] : i \in 1..Len(s)}

\* The catalogs a scan can produce: the tracks of a folder in scan order.
AllTracks == [i \in 1..MaxTracks |-> i]
OnlyTracks(s, S) == SelectSeq(s, LAMBDA p : p \in S)
Catalogs == {OnlyTracks(AllTracks, S) : S \in SUBSET Tracks}

\* A search term: empty, or a text identified with the set of tracks whose
\* "title artist filename" contains it.
EmptyTerm == [empty |-> TRUE, match |-> {}]
Terms == {EmptyTerm} \cup {[empty |-> FALSE, match |-> S] : S \in SUBSET Tracks}

\* on_input_changed's list as it would be if the term were matched against
\* every track of the music folder instead of the catalog's entries.
FilterPlaylist_folder(full, term) ==
    IF term.empty THEN full ELSE OnlyTracks(AllTracks, term.match)

\* on_input_changed's list: the whole catalog for an empty term, else the
\* entries of the catalog that contain the term, in catalog order.
FilterPlaylist(full, term) ==
    IF term.empty THEN full ELSE OnlyTracks(full, term.match)

\* -------------------------------------------------- core/player.py VLCMusic
\* VLCMusic.__init__: no media, no callback registered, and one listener,
\* _vlc_end_event, attached to MediaPlayerEndReached.
NewPlayer == [media |-> None, state |-> "idle", cb |-> None, listeners |-> 1]

\* The callbacks that can be registered; on_end is the closure _play_index
\* registers.
Callbacks == 1..MaxCallbacks
on_end == 1

VLCMusic_load(p, f) == [p EXCEPT !.media = f]

\* add_end_callback as it would be if it attached one more listener with
\* every registration.
VLCMusic_add_end_callback_attach(p, c) ==
    [p EXCEPT !.cb = c, !.listeners = @ + 1]

\* add_end_callback: the callback replaces the registered one.
VLCMusic_add_end_callback(p, c) == [p EXCEPT !.cb = c]

\* _raise_end: the calls it makes, the registered callback when there is one.
raise_end(p) == IF p.cb # None THEN <<p.cb>> ELSE <<>>

\* One MediaPlayerEndReached event: every attached listener runs
\* _vlc_end_event, which runs _raise_end; the calls made, in order.
vlc_end_event(p) == [i \in 1..(p.listeners * Len(raise_end(p))) |-> p.cb]

VLCMusic_play(p) ==
    IF p.media = None THEN p ELSE [p EXCEPT !.state = "playing"]

VLCMusic_pause(p) ==
    IF p.state = "playing" THEN [p EXCEPT !.state = "paused"] ELSE p

VLCMusic_unpause(p) ==
    IF p.state = "paused" THEN [p EXCEPT !.state = "playing"] ELSE p

VLCMusic_stop(p) ==
    IF p.state = "idle" THEN p ELSE [p EXCEPT !.state = "stopped"]

NoSwap == [swap |-> FALSE, pl |-> <<>>]

Cmd(op, by, src) == [op |-> op, by |-> by, src |-> src]
NoCmd == Cmd("none", "none", "none")

\* ------------------------------------- the command-line player, main.py
\* play_music's state is the record cli.  A song is its index in song_files
\* plus one; play_index is the code's play_index plus one.
Songs == 1..MaxSongs

\* No exception has been raised.
NoFault == [n |-> 0, kind |-> "none"]

\* The value of cli while the TUI controller is the program that runs.
CliOff == [pc |-> "off"]

\* filter_state[0]: the empty term, or a term and the songs it occurs in.
NoFilter == [on |-> FALSE, match |-> {}]
Filters == {NoFilter} \cup [on : {TRUE}, match : SUBSET Songs]

\* The orders random.shuffle can leave the songs of S in.
Perms(S) ==
    {f \in [1..Cardinality(S) -> S] : \A x \in S : \E i \in 1..Cardinality(S) : f[i] = x}

\* The songs of S in the order of song_files.
InOrder(S) ==
    CHOOSE f \in Perms(S) : \A i, j \in 1..Cardinality(S) : i < j => f[i] < f[j]

\* rebuild_play_order: the songs the filter keeps, shuffled when shuffle is on.
rebuild_play_order(n, filt, shuf) ==
    LET S == IF filt.on THEN filt.match \cap (1..n) ELSE 1..n
    IN IF shuf THEN Perms(S) ELSE {InOrder(S)}

\* player.get_time() gives -1 when no time is available, else the
\* milliseconds played (here 0 or 1).
RawTimes == -1..1

\* vlc_player.VLCMusic.get_pos: the time, a negative one replaced by 0.
vlc_get_pos(t) == IF t >= 0 THEN t ELSE 0

\* play_music called by main: n songs found, those of ex on disk, resuming
\* at song ci; no shuffle, repeat off, empty queue, no filter.
CliStart(n, ex, ci) ==
    [pc |-> "outer", n |-> n, exists |-> ex,
     play_order |-> InOrder(1..n), play_index |-> ci, current_index |-> ci,
     queue_list |-> <<>>, shuffle |-> FALSE, repeat_mode |-> "off",
     filter |-> NoFilter, playing |-> FALSE, autoplay |-> TRUE,
     first_load |-> TRUE, song_ended_flag |-> FALSE, state |-> "idle",
     pos |-> 0, cmds |-> 0, adv |-> "none"]

\* ----------------------------------------------------------------- Init
\* wavrun.__init__: the playlist file gives the catalog; nothing is playing.
Init ==
    /\ full_playlist \in Catalogs
    /\ playlist = full_playlist
    /\ search = EmptyTerm
    /\ on_disk \in SUBSET Tracks
    /\ current_song_path = None
    /\ playing = FALSE
    /\ paused = FALSE
    /\ shuffle = FALSE
    /\ repeat_mode = "off"
    /\ song_end_flag = FALSE
    /\ stop_threads = FALSE
    /\ lock = "free"
    /\ player = NewPlayer
    /\ vlc_event = None
    /\ poll_pending = None
    /\ pc = [ui |-> "mount", mon |-> "off"]
    /\ path = [ui |-> None, mon |-> None]
    /\ m_idx = 0
    /\ ui_ft = FALSE
    /\ ui_old = NoSwap
    /\ tasks = 0
    /\ cmds = 0
    /\ flag_track = None
    /\ m_end = None
    /\ last_cmd = NoCmd
    /\ skips = 0
    /\ owed = 0
    /\ cli = CliOff
    /\ fault = NoFault
    /\ calls = <<>>

\* ------------------------------------------------ the UI (event-loop) thread
\* The end of a handler on the UI thread: the event loop is idle again and a
\* monitor blocked in call_from_thread on that handler resumes (it sleeps and
\* goes back to the top of its loop).
Resume(p) ==
    [p EXCEPT !.ui = "idle",
              !.mon = IF p.mon = "m_blocked" THEN "m_loop" ELSE p.mon]

\* _play_index on the UI thread, from its bounds check to the file check:
\* index i of list pl (the view, or the full playlist swapped in by the
\* caller when swap), from_thread = ft, under thread positions p0, with tk tasks pending and sk skips
\* counted so far.  An existing file leads to the load sequence under the
\* lock; a missing file schedules action_next as a task, or, when
\* from_thread is set on the UI thread, fails inside call_from_thread, which
\* refuses to run on the app's own thread, so the caller is left before it
\* restores the view.
play_index_ui(p0, i, pl, ft, swap, tk, sk) ==
    IF i < 1 \/ i > Len(pl)
    THEN /\ pc' = Resume(p0)
         /\ tasks' = tk
         /\ skips' = sk
         /\ UNCHANGED <<current_song_path, path, ui_ft, ui_old, playlist>>
    ELSE /\ current_song_path' = pl[i]
         /\ IF pl[i] \in on_disk
            THEN /\ pc' = [p0 EXCEPT !.ui = "pi_lock"]
                 /\ path' = [path EXCEPT !.ui = pl[i]]
                 /\ ui_ft' = ft
                 /\ ui_old' = [swap |-> swap, pl |-> IF swap THEN playlist ELSE <<>>]
                 /\ playlist' = pl
                 /\ tasks' = tk
                 /\ skips' = sk
            ELSE /\ pc' = Resume(p0)
                 /\ skips' = Min(sk + 1, MaxSkips)
                 /\ IF ft
                    THEN tasks' = tk /\ playlist' = pl
                    ELSE tk < MaxTasks /\ tasks' = tk + 1 /\ UNCHANGED playlist
                 /\ UNCHANGED <<path, ui_ft, ui_old>>

\* action_save, lines 394-398: the code index stored as last_index, the
\* position of the current song in the catalog, 0 when there is no current
\* song or the catalog does not hold it.
action_save_last_index(cur, full) ==
    IF cur # None
    THEN LET idx == find_song_in_full_playlist(full, cur) - 1
         IN IF idx >= 0 THEN idx ELSE 0
    ELSE 0

\* on_mount's resume as it would be if last_index were a position of the
\* catalog counted from one.
on_mount_resume_from_one(li, pl, full, cur) ==
    IF pl # <<>> /\ 1 <= li /\ li <= Len(full) THEN full[li] ELSE cur

\* on_mount, lines 155-156: the current song after the resume from code
\* index li, with view pl, catalog full and current song cur.
on_mount_resume(li, pl, full, cur) ==
    IF pl # <<>> /\ 0 <= li /\ li < Len(full) THEN full[li + 1] ELSE cur

\* on_mount: scan the music folder when there is no playlist, then resume
\* the track at the configured last_index li (a code index) of the catalog.
OnMount ==
    /\ pc.ui = "mount"
    /\ \E c \in Catalogs, li \in -1..MaxTracks :
         LET pl == IF playlist = <<>> THEN c ELSE playlist
             full == IF playlist = <<>> THEN c ELSE full_playlist
         IN /\ playlist' = pl
            /\ full_playlist' = full
            /\ current_song_path' = on_mount_resume(li, pl, full, current_song_path)
    /\ pc' = [pc EXCEPT !.ui = "idle"]
    /\ UNCHANGED <<cmds, search, on_disk, playing, paused, modeVars, signalVars,
                   stop_threads, lock, player, localVars, tasks, m_end,
                   last_cmd, skips, owed>>
    /\ UNCHANGED outerVars

\* action_play_index / on_list_view_selected: play the entry at position i.
ActionPlayIndex ==
    /\ UserCommand
    /\ \E i \in 1..MaxTracks :
         IF i > Len(playlist)
         THEN UNCHANGED <<current_song_path, pc, path, ui_ft, ui_old,
                          playlist, tasks, skips>>
         ELSE play_index_ui(pc, i, playlist, FALSE, FALSE, tasks, 0)
    /\ UNCHANGED <<full_playlist, search, on_disk, playing, paused, modeVars,
                   signalVars, stop_threads, lock, player, m_idx, m_end,
                   last_cmd, owed>>
    /\ UNCHANGED outerVars

\* action_play_pause: pause when playing; otherwise start the first entry
\* when no song is current, else unpause and set playing (paused is reset by
\* the next statement, ActionPlayPauseReset).
ActionPlayPause ==
    /\ UserCommand
    /\ IF playing
       THEN /\ player' = VLCMusic_pause(player)
            /\ last_cmd' = Cmd("pause", "ui", "play_pause")
            /\ playing' = FALSE
            /\ paused' = TRUE
            /\ UNCHANGED <<current_song_path, pc, path, ui_ft, ui_old, playlist,
                           tasks, skips>>
       ELSE IF current_song_path = None /\ playlist # <<>>
            THEN /\ play_index_ui(pc, 1, playlist, FALSE, FALSE, tasks, 0)
                 /\ UNCHANGED <<player, last_cmd, playing, paused>>
            ELSE /\ player' = VLCMusic_unpause(player)
                 /\ last_cmd' = Cmd("unpause", "ui", "play_pause")
                 /\ playing' = TRUE
                 /\ pc' = [pc EXCEPT !.ui = "pp_paused"]
                 /\ UNCHANGED <<current_song_path, paused, path, ui_ft, ui_old,
                                playlist, tasks, skips>>
    /\ UNCHANGED <<full_playlist, search, on_disk, modeVars, signalVars,
                   stop_threads, lock, m_idx, m_end, owed>>
    /\ UNCHANGED outerVars

\* action_play_pause, line 271: self.paused = False.
ActionPlayPauseReset ==
    /\ pc.ui = "pp_paused"
    /\ paused' = FALSE
    /\ pc' = Resume(pc)
    /\ UNCHANGED <<cmds, listVars, on_disk, current_song_path, playing, modeVars,
                   signalVars, stop_threads, lock, player, localVars, tasks,
                   m_end, last_cmd, skips, owed>>
    /\ UNCHANGED outerVars

\* action_next's choice of the next position in the view, 0 for "stop":
\* any position under shuffle, else the successor of the current position
\* (the first position when the current song is not in the view), wrapping
\* to the first position at the end under repeat all.
NextIndices(cur, n, shuf, rep) ==
    IF shuf THEN 1..n
    ELSE IF cur + 1 <= n THEN {cur + 1}
    ELSE IF rep = "all" THEN {1}
    ELSE {0}

\* The body of action_next with tk tasks pending and sk skips counted so far.
action_next(tk, sk) ==
    IF playlist = <<>>
    THEN /\ tasks' = tk
         /\ skips' = sk
         /\ UNCHANGED <<current_song_path, pc, path, ui_ft, ui_old,
                        playlist, player, last_cmd, playing>>
    ELSE \E i \in NextIndices(get_current_index(current_song_path, playlist),
                              Len(playlist), shuffle, repeat_mode) :
           IF i = 0
           THEN /\ player' = VLCMusic_stop(player)
                /\ last_cmd' = Cmd("stop", "ui", "next")
                /\ playing' = FALSE
                /\ tasks' = tk
                /\ skips' = sk
                /\ UNCHANGED <<current_song_path, pc, path, ui_ft, ui_old, playlist>>
           ELSE /\ play_index_ui(pc, i, playlist, FALSE, FALSE, tk, sk)
                /\ UNCHANGED <<player, last_cmd, playing>>

\* The user's Next (key n or the next button).
ActionNext ==
    /\ UserCommand
    /\ action_next(tasks, 0)
    /\ UNCHANGED <<full_playlist, search, on_disk, paused, modeVars, signalVars,
                   stop_threads, lock, m_idx, m_end, owed>>
    /\ UNCHANGED outerVars

\* A task created by asyncio.create_task(self.action_next()) after a missing
\* file (_play_index line 213, _skip_to_next) runs on the event loop.
TaskNext ==
    /\ pc.ui = "idle"
    /\ tasks > 0
    /\ action_next(tasks - 1, skips)
    /\ UNCHANGED <<cmds, full_playlist, search, on_disk, paused, modeVars, signalVars,
                   stop_threads, lock, m_idx, m_end, owed>>
    /\ UNCHANGED outerVars

\* action_prev's choice as it would be if the first position wrapped to the
\* last under every repeat mode.
PrevIndex_wraps(cur, n, rep) ==
    LET c == IF cur < 1 THEN 1 ELSE cur
    IN IF c > 1 THEN c - 1 ELSE n

\* action_prev's choice of the position to play.
PrevIndex(cur, n, rep) ==
    LET c == IF cur < 1 THEN 1 ELSE cur
    IN IF c > 1 THEN c - 1 ELSE IF rep = "all" THEN n ELSE 1

\* action_prev: seek to the start when more than 3000 ms into the track
\* (late: the backend's position is above 3000), else play the predecessor.
ActionPrev ==
    /\ UserCommand
    /\ \E late \in BOOLEAN :
         IF playlist = <<>>
         THEN UNCHANGED <<current_song_path, pc, path, ui_ft, ui_old,
                          playlist, tasks, skips, last_cmd>>
         ELSE IF late /\ player.state \in {"playing", "paused"}
         THEN /\ last_cmd' = Cmd("set_time", "ui", "prev")
              /\ UNCHANGED <<current_song_path, pc, path, ui_ft, ui_old,
                             playlist, tasks, skips>>
         ELSE /\ play_index_ui(pc, PrevIndex(get_current_index(current_song_path, playlist),
                                         Len(playlist), repeat_mode),
                               playlist, FALSE, FALSE, tasks, 0)
              /\ UNCHANGED last_cmd
    /\ UNCHANGED <<full_playlist, search, on_disk, playing, paused, modeVars,
                   signalVars, stop_threads, lock, player, m_idx, m_end, owed>>
    /\ UNCHANGED outerVars

\* action_shuffle: toggle the shuffle flag.
ActionShuffle ==
    /\ UserCommand
    /\ shuffle' = ~shuffle
    /\ UNCHANGED <<listVars, on_disk, stateVars, repeat_mode, signalVars,
                   stop_threads, lock, player, pc, localVars, tasks, histVars>>
    /\ UNCHANGED outerVars

\* action_repeat's cycle as it would be if it had no "all" step.
NextRepeat_two(r) == IF r = "off" THEN "one" ELSE "off"

\* action_repeat: cycle off -> one -> all -> off.
NextRepeat(r) == IF r = "off" THEN "one" ELSE IF r = "one" THEN "all" ELSE "off"

ActionRepeat ==
    /\ UserCommand
    /\ repeat_mode' = NextRepeat(repeat_mode)
    /\ UNCHANGED <<listVars, on_disk, stateVars, shuffle, signalVars,
                   stop_threads, lock, player, pc, localVars, tasks, histVars>>
    /\ UNCHANGED outerVars

\* on_input_changed as it would be if a filter that excludes the current
\* song unselected it.
OnInputChanged_unselect ==
    /\ UserCommand
    /\ \E term \in Terms :
         /\ search' = term
         /\ playlist' = FilterPlaylist(full_playlist, term)
         /\ current_song_path' =
                IF \E i \in 1..Len(FilterPlaylist(full_playlist, term)) :
                       FilterPlaylist(full_playlist, term)[i] = current_song_path
                THEN current_song_path ELSE None
    /\ UNCHANGED <<full_playlist, on_disk, playing, paused, modeVars, signalVars,
                   stop_threads, lock, player, pc, localVars, tasks, histVars>>
    /\ UNCHANGED outerVars

\* on_input_changed: the search box now holds term; recompute the view.
OnInputChanged ==
    /\ UserCommand
    /\ \E term \in Terms :
         /\ search' = term
         /\ playlist' = FilterPlaylist(full_playlist, term)
    /\ UNCHANGED <<full_playlist, on_disk, stateVars, modeVars, signalVars,
                   stop_threads, lock, player, pc, localVars, tasks, histVars>>
    /\ UNCHANGED outerVars

\* action_clear_search: empty the search box and restore the full playlist.
ActionClearSearch ==
    /\ UserCommand
    /\ search' = EmptyTerm
    /\ playlist' = full_playlist
    /\ UNCHANGED <<full_playlist, on_disk, stateVars, modeVars, signalVars,
                   stop_threads, lock, player, pc, localVars, tasks, histVars>>
    /\ UNCHANGED outerVars

\* apply_folder: a scan of the chosen folder replaces catalog and view, and
\* the current song is reset.
ApplyFolder ==
    /\ UserCommand
    /\ \E c \in Catalogs :
         /\ playlist' = c
         /\ full_playlist' = c
    /\ current_song_path' = None
    /\ skips' = 0
    /\ UNCHANGED <<search, on_disk, playing, paused, modeVars, signalVars,
                   stop_threads, lock, player, pc, localVars, tasks, m_end,
                   last_cmd, owed>>
    /\ UNCHANGED outerVars

\* action_save_and_exit as it would be if the backend were stopped before
\* the monitor is joined.
ActionSaveAndExit_stop_first ==
    /\ UserCommand
    /\ stop_threads' = TRUE
    /\ player' = VLCMusic_stop(player)
    /\ last_cmd' = Cmd("stop", "ui", "exit")
    /\ pc' = [pc EXCEPT !.ui = "x_join"]
    /\ UNCHANGED <<listVars, on_disk, stateVars, modeVars, signalVars, lock,
                   localVars, tasks, m_end, skips, owed>>
    /\ UNCHANGED outerVars

\* action_save_and_exit, line 374: signal the monitor to stop.
ActionSaveAndExit ==
    /\ UserCommand
    /\ stop_threads' = TRUE
    /\ pc' = [pc EXCEPT !.ui = "x_join"]
    /\ UNCHANGED <<listVars, on_disk, stateVars, modeVars, signalVars, lock,
                   player, localVars, tasks, histVars>>
    /\ UNCHANGED outerVars

\* action_save_and_exit, lines 375-388: join the monitor for at most one
\* second (the join returns whether or not the monitor has finished) and save.
ExitJoin ==
    /\ pc.ui = "x_join"
    /\ pc' = [pc EXCEPT !.ui = "x_stop"]
    /\ UNCHANGED <<cmds, listVars, on_disk, stateVars, modeVars, signalVars,
                   stop_threads, lock, player, localVars, tasks, histVars>>
    /\ UNCHANGED outerVars

\* action_save_and_exit, lines 389-390: stop the backend and leave the app.
\* The event loop runs no handler once self.exit() has been called, so a
\* monitor waiting in call_from_thread, which has no timeout, is not served.
ExitStop ==
    /\ pc.ui = "x_stop"
    /\ player' = VLCMusic_stop(player)
    /\ last_cmd' = Cmd("stop", "ui", "exit")
    /\ pc' = [pc EXCEPT !.ui = "exited"]
    /\ UNCHANGED <<cmds, listVars, on_disk, stateVars, modeVars, signalVars,
                   stop_threads, lock, localVars, tasks, m_end, skips,
                   owed>>
    /\ UNCHANGED outerVars

\* --------------------------- _play_index, lines 216-233, on thread t
\* with self._lock: self.player.stop()
PiLock(t) ==
    /\ pc[t] = "pi_lock"
    /\ lock = "free"
    /\ lock' = t
    /\ player' = VLCMusic_stop(player)
    /\ last_cmd' = Cmd("stop", t, "play_index")
    /\ pc' = [pc EXCEPT ![t] = "pi_load"]
    /\ UNCHANGED <<cmds, listVars, on_disk, stateVars, modeVars, signalVars,
                   stop_threads, localVars, tasks, m_end, skips, owed>>
    /\ UNCHANGED outerVars

\* self.player.load(path); self.player.add_end_callback(on_end)
PiLoad(t) ==
    /\ pc[t] = "pi_load"
    /\ player' = VLCMusic_add_end_callback(VLCMusic_load(player, path[t]), on_end)
    /\ last_cmd' = Cmd("load", t, "play_index")
    /\ skips' = 0
    /\ pc' = [pc EXCEPT ![t] = "pi_play"]
    /\ UNCHANGED <<cmds, listVars, on_disk, stateVars, modeVars, signalVars,
                   stop_threads, lock, localVars, tasks, m_end, owed>>
    /\ UNCHANGED outerVars

\* self.player.play()
PiPlay(t) ==
    /\ pc[t] = "pi_play"
    /\ player' = VLCMusic_play(player)
    /\ last_cmd' = Cmd("play", t, "play_index")
    /\ pc' = [pc EXCEPT ![t] = "pi_playing"]
    /\ UNCHANGED <<cmds, listVars, on_disk, stateVars, modeVars, signalVars,
                   stop_threads, lock, localVars, tasks, m_end, skips,
                   owed>>
    /\ UNCHANGED outerVars

\* self.playing = True
PiPlaying(t) ==
    /\ pc[t] = "pi_playing"
    /\ playing' = TRUE
    /\ pc' = [pc EXCEPT ![t] = "pi_paused"]
    /\ UNCHANGED <<cmds, listVars, on_disk, current_song_path, paused, modeVars,
                   signalVars, stop_threads, lock, player, localVars, tasks,
                   m_end, last_cmd, skips, owed>>
    /\ UNCHANGED outerVars

\* The monitor thread is started when none is alive (lines 242-245).
StartMonitor(p) ==
    [p EXCEPT !.mon = IF p.mon \in {"off", "m_done"} THEN "m_loop" ELSE p.mon]

\* On the UI thread: self.paused = False, the lock is released, the UI is
\* updated, the monitor is started and the caller restores a swapped view.
\* With from_thread set (replay) call_from_thread fails on the app's own
\* thread instead, and replay never restores the view.
PiPausedUI ==
    /\ pc.ui = "pi_paused"
    /\ paused' = FALSE
    /\ lock' = "free"
    /\ IF ui_ft
       THEN /\ pc' = Resume(pc)
            /\ UNCHANGED playlist
       ELSE /\ pc' = Resume(StartMonitor(pc))
            /\ playlist' = IF ui_old.swap THEN ui_old.pl ELSE playlist
    /\ path' = [path EXCEPT !.ui = None]
    /\ ui_ft' = FALSE
    /\ ui_old' = NoSwap
    /\ UNCHANGED <<cmds, full_playlist, search, on_disk, current_song_path, playing,
                   modeVars, signalVars, stop_threads, player, m_idx, tasks,
                   m_end, last_cmd, skips, owed>>
    /\ UNCHANGED outerVars

\* On the monitor thread: self.paused = False and the lock is released.
PiPausedMon ==
    /\ pc.mon = "pi_paused"
    /\ paused' = FALSE
    /\ lock' = "free"
    /\ pc' = [pc EXCEPT !.mon = "pi_ui"]
    /\ UNCHANGED <<cmds, listVars, on_disk, current_song_path, playing, modeVars,
                   signalVars, stop_threads, player, localVars, tasks, m_end,
                   last_cmd, skips, owed>>
    /\ UNCHANGED outerVars

\* On the monitor thread: call_from_thread(self._update_ui_playing) waits
\* for the event loop, which only reads the state.
PiUpdateUIMon ==
    /\ pc.mon = "pi_ui"
    /\ pc.ui = "idle"
    /\ pc' = [pc EXCEPT !.mon = "m_loop"]
    /\ path' = [path EXCEPT !.mon = None]
    /\ UNCHANGED <<cmds, listVars, on_disk, stateVars, modeVars, signalVars,
                   stop_threads, lock, player, m_idx, ui_ft, ui_old, tasks,
                   histVars>>
    /\ UNCHANGED outerVars

\* ------------------------------------- the monitor thread, _progress_loop
Max(a, b) == IF a > b THEN a ELSE b

\* One more advance issued for the completions counted in owed.
Issued(o) == Max(o - 1, -1)

\* The loop's turn as it would be if the display update took playing from
\* the backend's state.
MonLoop_sync ==
    /\ pc.mon = "m_loop"
    /\ IF stop_threads
       THEN pc' = [pc EXCEPT !.mon = "m_done"] /\ UNCHANGED playing
       ELSE /\ playing => pc.ui = "idle"
            /\ playing' = (playing /\ player.state = "playing")
            /\ pc' = [pc EXCEPT !.mon = IF song_end_flag THEN "m_clear" ELSE "m_loop"]
    /\ UNCHANGED <<cmds, listVars, on_disk, current_song_path, paused, modeVars,
                   signalVars, stop_threads, lock, player, localVars, tasks,
                   histVars>>
    /\ UNCHANGED outerVars

\* One turn of the loop without a signal: while not self.stop_threads; the
\* progress update, which when playing shows the position through
\* call_from_thread and so waits for the event loop; then the test
\* self.song_end_flag.is_set(), after which the thread sleeps and loops.
MonLoop ==
    /\ pc.mon = "m_loop"
    /\ IF stop_threads
       THEN pc' = [pc EXCEPT !.mon = "m_done"]
       ELSE /\ playing => pc.ui = "idle"
            /\ pc' = [pc EXCEPT !.mon = IF song_end_flag THEN "m_clear" ELSE "m_loop"]
    /\ UNCHANGED <<cmds, listVars, on_disk, stateVars, modeVars, signalVars,
                   stop_threads, lock, player, localVars, tasks, histVars>>
    /\ UNCHANGED outerVars

\* self.song_end_flag.clear() and the test of repeat_mode.
MonClear ==
    /\ pc.mon = "m_clear"
    /\ song_end_flag' = FALSE
    /\ m_end' = flag_track
    /\ pc' = [pc EXCEPT !.mon = IF repeat_mode = "one" THEN "m_idx" ELSE "m_advance"]
    /\ UNCHANGED <<cmds, listVars, on_disk, stateVars, modeVars, vlc_event,
                   poll_pending, flag_track, stop_threads, lock, player,
                   localVars, tasks, last_cmd, skips, owed>>
    /\ UNCHANGED outerVars

\* Repeat one, lines 465-471: the position of the current song in the view,
\* else in the full playlist; nothing is replayed when it is in neither.
MonIdx ==
    /\ pc.mon = "m_idx"
    /\ LET cur == get_current_index(current_song_path, playlist)
           idx_full == find_song_in_full_playlist(full_playlist, current_song_path)
       IN IF cur >= 1
          THEN m_idx' = cur /\ pc' = [pc EXCEPT !.mon = "m_play"]
          ELSE IF idx_full >= 1
          THEN m_idx' = idx_full /\ pc' = [pc EXCEPT !.mon = "m_replay"]
          ELSE m_idx' = 0 /\ pc' = [pc EXCEPT !.mon = "m_loop"]
    /\ UNCHANGED <<cmds, listVars, on_disk, stateVars, modeVars, signalVars,
                   stop_threads, lock, player, path, ui_ft, ui_old, tasks,
                   histVars>>
    /\ UNCHANGED outerVars

\* Repeat one, line 467: _play_index(current_idx, from_thread=True) on the
\* monitor thread itself; its bounds check and its read of the view's entry,
\* lines 198-201.
MonPlay ==
    /\ pc.mon = "m_play"
    /\ owed' = Issued(owed)
    /\ IF m_idx < 1 \/ m_idx > Len(playlist)
       THEN /\ pc' = [pc EXCEPT !.mon = "m_loop"]
            /\ UNCHANGED path
       ELSE /\ pc' = [pc EXCEPT !.mon = "m_set"]
            /\ path' = [path EXCEPT !.mon = playlist[m_idx]]
    /\ m_idx' = 0
    /\ UNCHANGED <<cmds, listVars, on_disk, stateVars, modeVars, signalVars,
                   stop_threads, lock, player, ui_ft, ui_old, tasks, m_end,
                   last_cmd, skips>>
    /\ UNCHANGED outerVars

\* The same _play_index, lines 203-214: the monitor thread writes the path
\* it read to current_song_path, whatever the event loop did to the lists
\* meanwhile, and checks the file.
MonSetCurrent ==
    /\ pc.mon = "m_set"
    /\ current_song_path' = path.mon
    /\ IF path.mon \in on_disk
       THEN /\ pc' = [pc EXCEPT !.mon = "pi_lock"]
            /\ UNCHANGED <<path, skips>>
       ELSE /\ pc' = [pc EXCEPT !.mon = "m_skip"]
            /\ skips' = Min(skips + 1, MaxSkips)
            /\ path' = [path EXCEPT !.mon = None]
    /\ UNCHANGED <<cmds, listVars, on_disk, playing, paused, modeVars, signalVars,
                   stop_threads, lock, player, m_idx, ui_ft, ui_old, tasks, m_end,
                   last_cmd, owed>>
    /\ UNCHANGED outerVars

\* Missing file on the monitor thread, lines 209-210: the status update and
\* _skip_to_next run on the event loop, which creates the action_next task.
MonSkip ==
    /\ pc.mon = "m_skip"
    /\ pc.ui = "idle"
    /\ tasks < MaxTasks
    /\ tasks' = tasks + 1
    /\ pc' = [pc EXCEPT !.mon = "m_loop"]
    /\ UNCHANGED <<cmds, listVars, on_disk, stateVars, modeVars, signalVars,
                   stop_threads, lock, player, localVars, histVars>>
    /\ UNCHANGED outerVars

\* Repeat one, lines 472-477: replay runs on the event loop; it swaps in the
\* full playlist and calls _play_index(idx_full, from_thread=True).
MonReplay ==
    /\ pc.mon = "m_replay"
    /\ pc.ui = "idle"
    /\ owed' = Issued(owed)
    /\ play_index_ui([pc EXCEPT !.mon = "m_blocked"], m_idx, full_playlist,
                     TRUE, TRUE, tasks, 0)
    /\ m_idx' = 0
    /\ UNCHANGED <<cmds, full_playlist, search, on_disk, playing, paused, modeVars,
                   signalVars, stop_threads, lock, player, m_end, last_cmd>>
    /\ UNCHANGED outerVars

\* _advance_to_next's choice as it would be if a successor outside the view
\* ended playback.
AdvanceIndices_view_end(cur, n, shuf, rep) ==
    IF shuf THEN 1..n
    ELSE IF cur + 1 <= n
         THEN IF \E j \in 1..Len(playlist) : playlist[j] = full_playlist[cur + 1]
              THEN {cur + 1} ELSE {0}
    ELSE IF rep = "all" THEN {1}
    ELSE {0}

\* _advance_to_next's choice as it would be if shuffle drew from the tracks
\* of the filtered view.
AdvanceIndices_shuffle_view(cur, n, shuf, rep) ==
    IF shuf THEN {i \in 1..n : \E j \in 1..Len(playlist) : playlist[j] = full_playlist[i]}
    ELSE IF cur + 1 <= n THEN {cur + 1}
    ELSE IF rep = "all" THEN {1}
    ELSE {0}

\* _advance_to_next's choice as it would be if the wrap of repeat all went to
\* code index 1 instead of 0.
AdvanceIndices_wrap_second(cur, n, shuf, rep) ==
    IF shuf THEN 1..n
    ELSE IF cur + 1 <= n THEN {cur + 1}
    ELSE IF rep = "all" THEN {Min(2, n)}
    ELSE {0}

\* _advance_to_next's choice as it would be if the end of the list tested
\* the truth of repeat_mode (any non-empty string) instead of "all".
AdvanceIndices_truthy(cur, n, shuf, rep) ==
    IF shuf THEN 1..n
    ELSE IF cur + 1 <= n THEN {cur + 1}
    ELSE IF rep # "" THEN {1}
    ELSE {0}

\* _advance_to_next's choice of the next position in the full playlist, 0
\* for "stop": any position under shuffle, else the successor of the
\* current position, wrapping to the first at the end under repeat all.
AdvanceIndices(cur, n, shuf, rep) ==
    IF shuf THEN 1..n
    ELSE IF cur + 1 <= n THEN {cur + 1}
    ELSE IF rep = "all" THEN {1}
    ELSE {0}

\* _advance_to_next on the event loop, under thread positions p0.
advance_to_next(p0) ==
    LET cur == find_song_in_full_playlist(full_playlist, current_song_path)
    IN IF current_song_path = None \/ cur < 1
       THEN /\ pc' = Resume(p0)
            /\ UNCHANGED <<current_song_path, path, ui_ft, ui_old,
                           playlist, tasks, skips, player, last_cmd, playing>>
       ELSE \E nxt \in AdvanceIndices(cur, Len(full_playlist), shuffle, repeat_mode) :
              IF nxt = 0
              THEN /\ player' = VLCMusic_stop(player)
                   /\ last_cmd' = Cmd("stop", "ui", "advance")
                   /\ playing' = FALSE
                   /\ pc' = Resume(p0)
                   /\ UNCHANGED <<current_song_path, path, ui_ft, ui_old,
                                  playlist, tasks, skips>>
              ELSE /\ IF IndexOf(playlist, full_playlist[nxt]) >= 1
                      THEN play_index_ui(p0, IndexOf(playlist, full_playlist[nxt]),
                                         playlist, FALSE, FALSE, tasks, 0)
                      ELSE play_index_ui(p0, nxt, full_playlist, FALSE, TRUE,
                                         tasks, 0)
                   /\ UNCHANGED <<player, last_cmd, playing>>

\* Line 481: call_from_thread(self._advance_to_next) waits for the event
\* loop and runs _advance_to_next there.
MonAdvance ==
    /\ pc.mon = "m_advance"
    /\ pc.ui = "idle"
    /\ owed' = Issued(owed)
    /\ advance_to_next([pc EXCEPT !.mon = "m_blocked"])
    /\ UNCHANGED <<cmds, full_playlist, search, on_disk, paused, modeVars, signalVars,
                   stop_threads, lock, m_idx, m_end>>
    /\ UNCHANGED outerVars

\* ------------------------------------------------- the backend's threads
\* The media reaches its end while playing: VLC raises MediaPlayerEndReached.
VlcEndReached ==
    /\ player.state = "playing"
    /\ vlc_event = None
    /\ owed < MaxOwed
    /\ player' = [player EXCEPT !.state = "ended"]
    /\ vlc_event' = player.media
    /\ owed' = owed + 1
    /\ UNCHANGED <<cmds, listVars, on_disk, stateVars, modeVars, song_end_flag,
                   poll_pending, flag_track, stop_threads, lock, pc, localVars,
                   tasks, m_end, last_cmd, skips>>
    /\ UNCHANGED outerVars

\* VLCMusic._vlc_end_event and _raise_end on the VLC event thread: the
\* registered callback on_end sets the flag.
VlcEndEvent ==
    /\ vlc_event # None
    /\ vlc_event' = None
    /\ IF vlc_end_event(player) # <<>>
       THEN song_end_flag' = TRUE /\ flag_track' = vlc_event
       ELSE UNCHANGED <<song_end_flag, flag_track>>
    /\ UNCHANGED <<cmds, listVars, on_disk, stateVars, modeVars, poll_pending,
                   stop_threads, lock, player, pc, localVars, tasks, histVars>>
    /\ UNCHANGED outerVars

\* _on_song_end, the second signal path: a thread that finds the track
\* ended posts _handle_song_end to the event loop.
OnSongEnd ==
    /\ player.state = "ended"
    /\ poll_pending = None
    /\ poll_pending' = player.media
    /\ UNCHANGED <<cmds, listVars, on_disk, stateVars, modeVars, song_end_flag,
                   vlc_event, flag_track, stop_threads, lock, player, pc,
                   localVars, tasks, histVars>>
    /\ UNCHANGED outerVars

\* _handle_song_end on the event loop sets the flag.
HandleSongEnd ==
    /\ poll_pending # None
    /\ pc.ui = "idle"
    /\ song_end_flag' = TRUE
    /\ flag_track' = poll_pending
    /\ poll_pending' = None
    /\ UNCHANGED <<cmds, listVars, on_disk, stateVars, modeVars, vlc_event,
                   stop_threads, lock, player, pc, localVars, tasks, histVars>>
    /\ UNCHANGED outerVars

\* ------------------------------------------------------- specification
Next ==
    \/ OnMount
    \/ ActionPlayIndex
    \/ ActionPlayPause
    \/ ActionPlayPauseReset
    \/ ActionNext
    \/ TaskNext
    \/ ActionPrev
    \/ ActionShuffle
    \/ ActionRepeat
    \/ OnInputChanged
    \/ ActionClearSearch
    \/ ApplyFolder
    \/ ActionSaveAndExit
    \/ ExitJoin
    \/ ExitStop
    \/ \E t \in {"ui", "mon"} : PiLock(t)
    \/ \E t \in {"ui", "mon"} : PiLoad(t)
    \/ \E t \in {"ui", "mon"} : PiPlay(t)
    \/ \E t \in {"ui", "mon"} : PiPlaying(t)
    \/ PiPausedUI
    \/ PiPausedMon
    \/ PiUpdateUIMon
    \/ MonLoop
    \/ MonClear
    \/ MonIdx
    \/ MonPlay
    \/ MonSetCurrent
    \/ MonSkip
    \/ MonReplay
    \/ MonAdvance
    \/ VlcEndReached
    \/ VlcEndEvent

\* The controller as it is wired: the end callback registered by _play_index
\* is the only source of the end signal.
Spec == Init /\ [][Next]_vars

\* A step of the monitor thread.
MonitorStep ==
    \/ MonLoop
    \/ MonClear
    \/ MonIdx
    \/ MonPlay
    \/ MonSetCurrent
    \/ MonSkip
    \/ MonReplay
    \/ MonAdvance
    \/ PiLock("mon")
    \/ PiLoad("mon")
    \/ PiPlay("mon")
    \/ PiPlaying("mon")
    \/ PiPausedMon
    \/ PiUpdateUIMon

\* A step of the event loop that needs no user: the rest of a running
\* handler, or a pending action_next task.
EventLoopStep ==
    \/ ActionPlayPauseReset
    \/ TaskNext
    \/ ExitJoin
    \/ ExitStop
    \/ PiLock("ui")
    \/ PiLoad("ui")
    \/ PiPlay("ui")
    \/ PiPlaying("ui")
    \/ PiPausedUI

\* The controller with the monitor thread, the event loop and the VLC event
\* thread scheduled fairly; the user and the end of a track are not forced.
SpecLive ==
    /\ Spec
    /\ WF_vars(MonitorStep)
    /\ WF_vars(EventLoopStep)
    /\ WF_vars(VlcEndEvent)

\* The controller with its second signal path, _on_song_end, in use.
NextSignals ==
    \/ Next
    \/ OnSongEnd
    \/ HandleSongEnd

SpecSignals == Init /\ [][NextSignals]_vars

\* --------------------------------------------------------------- faults
\* self.player.load(path) raises inside _play_index on thread t: the with
\* statement releases the lock and the exception leaves _play_index and its
\* caller (a caller that swapped the view in does not restore it); on the
\* monitor thread, or handed to it by call_from_thread, it is caught at the
\* loop boundary.
PiLoadFails(t) ==
    /\ pc[t] = "pi_load"
    /\ fault.n < MaxFaults
    /\ fault' = [n |-> fault.n + 1, kind |-> "load"]
    /\ lock' = "free"
    /\ IF t = "ui"
       THEN /\ pc' = Resume(pc)
            /\ path' = [path EXCEPT !.ui = None]
            /\ ui_ft' = FALSE
            /\ ui_old' = NoSwap
       ELSE /\ pc' = [pc EXCEPT !.mon = "m_loop"]
            /\ path' = [path EXCEPT !.mon = None]
            /\ UNCHANGED <<ui_ft, ui_old>>
    /\ UNCHANGED <<cmds, listVars, on_disk, stateVars, modeVars, signalVars,
                   stop_threads, player, m_idx, tasks, histVars, cli, calls>>

\* The places of the monitor thread inside the try block of _progress_loop.
MonBody ==
    {"m_loop", "m_clear", "m_idx", "m_play", "m_set", "m_replay", "m_advance", "m_skip",
     "pi_lock", "pi_load", "pi_play", "pi_playing", "pi_paused", "pi_ui"}

\* An exception on the monitor thread as it would go without the try block
\* of _progress_loop: the thread ends.
MonFault_uncaught ==
    /\ pc.mon \in MonBody
    /\ ~(pc.mon = "m_loop" /\ stop_threads)
    /\ fault.n < MaxFaults
    /\ fault' = [n |-> fault.n + 1, kind |-> "mon"]
    /\ pc' = [pc EXCEPT !.mon = "m_done"]
    /\ lock' = IF lock = "mon" THEN "free" ELSE lock
    /\ path' = [path EXCEPT !.mon = None]
    /\ m_idx' = 0
    /\ UNCHANGED <<cmds, listVars, on_disk, stateVars, modeVars, signalVars,
                   stop_threads, player, ui_ft, ui_old, tasks, histVars, cli, calls>>

\* An exception is raised on the monitor thread inside the loop body: a lock
\* held is released by the with statement, the handler of lines 484-487
\* logs, sleeps, and the loop goes on.
MonFault ==
    /\ pc.mon \in MonBody
    /\ ~(pc.mon = "m_loop" /\ stop_threads)
    /\ fault.n < MaxFaults
    /\ fault' = [n |-> fault.n + 1, kind |-> "mon"]
    /\ pc' = [pc EXCEPT !.mon = "m_loop"]
    /\ lock' = IF lock = "mon" THEN "free" ELSE lock
    /\ path' = [path EXCEPT !.mon = None]
    /\ m_idx' = 0
    /\ UNCHANGED <<cmds, listVars, on_disk, stateVars, modeVars, signalVars,
                   stop_threads, player, ui_ft, ui_old, tasks, histVars, cli, calls>>

\* The registered end callback raises on the VLC event thread: _raise_end
\* catches and logs it, lines 94-99.
CallbackFault ==
    /\ vlc_event # None
    /\ raise_end(player) # <<>>
    /\ fault.n < MaxFaults
    /\ fault' = [n |-> fault.n + 1, kind |-> "callback"]
    /\ vlc_event' = None
    /\ UNCHANGED <<cmds, listVars, on_disk, stateVars, modeVars, song_end_flag,
                   poll_pending, flag_track, stop_threads, lock, player, pc,
                   localVars, tasks, histVars, cli, calls>>

NextFaults ==
    \/ Next
    \/ \E t \in {"ui", "mon"} : PiLoadFails(t)
    \/ MonFault
    \/ CallbackFault

\* The controller with exceptions raised by the backend's load, inside the
\* monitor loop and inside the end callback.
SpecFaults == Init /\ [][NextFaults]_vars

\* ------------------------------------- the command-line player's steps
tuiVars == <<listVars, on_disk, stateVars, modeVars, signalVars, stop_threads,
             lock, player, pc, localVars, tasks, cmds, histVars, fault, calls>>

\* main: the scan found 1..MaxSongs songs; the saved index is resumed only
\* when its file exists, else the first song.
InitCli ==
    /\ full_playlist = <<>>
    /\ playlist = <<>>
    /\ search = EmptyTerm
    /\ on_disk = {}
    /\ current_song_path = None
    /\ playing = FALSE
    /\ paused = FALSE
    /\ shuffle = FALSE
    /\ repeat_mode = "off"
    /\ song_end_flag = FALSE
    /\ stop_threads = FALSE
    /\ lock = "free"
    /\ player = NewPlayer
    /\ vlc_event = None
    /\ poll_pending = None
    /\ pc = [ui |-> "off", mon |-> "off"]
    /\ path = [ui |-> None, mon |-> None]
    /\ m_idx = 0
    /\ ui_ft = FALSE
    /\ ui_old = NoSwap
    /\ tasks = 0
    /\ cmds = 0
    /\ flag_track = None
    /\ m_end = None
    /\ last_cmd = NoCmd
    /\ skips = 0
    /\ owed = 0
    /\ \E n \in Songs, ex \in SUBSET Songs, ci \in Songs :
         /\ ex \subseteq 1..n
         /\ ci <= n
         /\ ci = 1 \/ ci \in ex
         /\ cli = CliStart(n, ex, ci)
    /\ fault = NoFault
    /\ calls = <<>>

\* The head of the outer loop, lines 229-264 and 304-305: wrap or return at
\* the end of play_order, read play_order[play_index] (an IndexError when
\* the position is outside the list), skip a missing file, else load and
\* play the song, paused on the first load or with autoplay off.
LoadStep(s) ==
    LET wrapped ==
            IF s.play_index > Len(s.play_order) /\ s.repeat_mode = "all"
            THEN {[s EXCEPT !.play_index = 1, !.play_order = po] :
                     po \in IF s.shuffle THEN Perms(Range(s.play_order))
                                         ELSE {s.play_order}}
            ELSE {s}
        body(w) ==
            IF w.play_index > Len(w.play_order)
            THEN [w EXCEPT !.pc = "crashed"]
            ELSE LET song == w.play_order[w.play_index]
                 IN IF song \notin w.exists
                    THEN [w EXCEPT !.current_index = song, !.play_index = @ + 1]
                    ELSE [w EXCEPT !.current_index = song,
                                   !.pc = "inner",
                                   !.first_load = FALSE,
                                   !.playing = ~w.first_load /\ w.autoplay,
                                   !.state = IF ~w.first_load /\ w.autoplay
                                             THEN "playing" ELSE "paused",
                                   !.song_ended_flag = FALSE,
                                   !.pos = 0]
    IN IF s.play_index > Len(s.play_order) /\ s.repeat_mode # "all"
       THEN {[s EXCEPT !.pc = "stopped"]}
       ELSE {body(w) : w \in wrapped}

CliLoad ==
    /\ cli.pc = "outer"
    /\ cli' \in LoadStep([cli EXCEPT !.adv = "none"])
    /\ UNCHANGED tuiVars

\* The song being played reaches its end: the backend is no longer busy.
CliTrackEnds ==
    /\ cli.pc = "inner"
    /\ cli.state = "playing"
    /\ cli' = [cli EXCEPT !.state = "ended"]
    /\ UNCHANGED tuiVars

\* The advance of lines 351-358, 433-440 and 565-572: the head of the queue
\* when there is one, else the next position of play_order.
cli_advance(s) ==
    IF s.queue_list # <<>>
    THEN LET h == Head(s.queue_list)
         IN [s EXCEPT !.current_index = h,
                      !.queue_list = Tail(s.queue_list),
                      !.play_index = IF IndexOf(s.play_order, h) >= 1
                                     THEN IndexOf(s.play_order, h) ELSE @ + 1]
    ELSE [s EXCEPT !.play_index = @ + 1]

\* The commands of the inner loop; m is the song a search found, f the
\* filter typed.
CliCommands ==
    [op : {"play_pause", "stop", "quit", "next", "back", "repeat", "shuffle",
           "autoplay", "other"}, m : {0}, f : {NoFilter}]
    \cup [op : {"search_play", "search_queue"}, m : Songs, f : {NoFilter}]
    \cup [op : {"filter"}, m : {0}, f : Filters]

\* list.insert(i, x) with the code's i = play_index + 1.
InsertAfter(po, i, x) ==
    LET k == Min(i, Len(po))
    IN SubSeq(po, 1, k) \o <<x>> \o SubSeq(po, k + 1, Len(po))

\* play_order[play_index] if play_index < len(play_order) else None.
CurrentInOrder(s) ==
    IF s.play_index <= Len(s.play_order) THEN s.play_order[s.play_index] ELSE 0

\* The command handling of lines 392-552: the states command c can leave.
Handle(c, s) ==
    CASE c.op = "play_pause" ->
            IF s.playing
            THEN {[s EXCEPT !.playing = FALSE,
                            !.state = IF @ = "playing" THEN "paused" ELSE @]}
            ELSE {[s EXCEPT !.playing = TRUE,
                            !.state = IF @ = "paused" THEN "playing" ELSE @]}
      [] c.op = "stop" ->
            {[s EXCEPT !.state = "stopped", !.playing = FALSE, !.pc = "stopped"]}
      [] c.op = "quit" ->
            {[s EXCEPT !.state = "stopped", !.playing = FALSE, !.pc = "quit"]}
      [] c.op = "next" ->
            {[cli_advance(s) EXCEPT !.state = "stopped", !.playing = FALSE,
                                    !.pc = "outer", !.adv = "next"]}
      [] c.op = "back" ->
            {[s EXCEPT !.state = "stopped", !.playing = FALSE, !.pc = "outer",
                       !.play_index = Max(1, @ - 1)]}
      [] c.op = "repeat" ->
            {[s EXCEPT !.repeat_mode = NextRepeat(@)]}
      [] c.op = "shuffle" ->
            {[s EXCEPT !.shuffle = ~s.shuffle,
                       !.play_order = po,
                       !.play_index = IF IndexOf(po, CurrentInOrder(s)) >= 1
                                      THEN IndexOf(po, CurrentInOrder(s)) ELSE @] :
                 po \in rebuild_play_order(s.n, s.filter, ~s.shuffle)}
      [] c.op = "autoplay" ->
            {[s EXCEPT !.autoplay = ~@]}
      [] c.op = "search_play" ->
            IF c.m > s.n THEN {s}
            ELSE IF IndexOf(s.play_order, c.m) >= 1
            THEN {[s EXCEPT !.current_index = c.m,
                            !.play_index = IndexOf(s.play_order, c.m),
                            !.state = "stopped", !.pc = "outer"]}
            ELSE {[s EXCEPT !.current_index = c.m,
                            !.play_order = InsertAfter(@, s.play_index, c.m),
                            !.play_index = @ + 1,
                            !.state = "stopped", !.pc = "outer"]}
      [] c.op = "search_queue" ->
            IF c.m > s.n \/ Len(s.queue_list) >= MaxQueue THEN {s}
            ELSE {[s EXCEPT !.queue_list = Append(@, c.m)]}
      [] c.op = "filter" ->
            IF c.f.on
            THEN {[s EXCEPT !.filter = c.f,
                            !.play_order = po,
                            !.play_index =
                                IF IndexOf(po, CurrentInOrder(s)) >= 1
                                THEN IndexOf(po, CurrentInOrder(s))
                                ELSE IF po # <<>> THEN 1 ELSE @] :
                     po \in rebuild_play_order(s.n, c.f, s.shuffle)}
            ELSE {[s EXCEPT !.filter = c.f,
                            !.play_order = po,
                            !.play_index = IF IndexOf(po, s.current_index) >= 1
                                           THEN IndexOf(po, s.current_index) ELSE @] :
                     po \in rebuild_play_order(s.n, c.f, s.shuffle)}
      [] OTHER -> {s}

\* Lines 555-573, after a command that stays in the inner loop: the backend
\* is not busy while the loop's status is playing.
EndCheck(s) ==
    IF s.pc = "inner" /\ s.state # "playing" /\ s.playing
    THEN IF s.repeat_mode = "one"
         THEN [s EXCEPT !.state = "playing", !.pos = 0, !.adv = "replay"]
         ELSE [cli_advance(s) EXCEPT !.pc = "outer", !.adv = "end"]
    ELSE s

\* Lines 337-359, the test of song_ended_flag at the top of the inner loop.
FlagCheck(s) ==
    IF s.repeat_mode = "one"
    THEN [s EXCEPT !.state = "playing", !.song_ended_flag = FALSE, !.pos = 0,
                   !.adv = "replay"]
    ELSE [cli_advance(s) EXCEPT !.pc = "outer", !.adv = "end"]

\* One turn of the inner loop: the flag test, else a command is read (the
\* read blocks until the user enters one), the flag is cleared, the command
\* is handled and the busy test of line 555 follows.
CliCommand ==
    /\ cli.pc = "inner"
    /\ LET s == [cli EXCEPT !.adv = "none"]
       IN IF s.song_ended_flag /\ s.playing
          THEN cli' = FlagCheck(s)
          ELSE /\ s.cmds < MaxCmds
               /\ \E c \in CliCommands :
                    cli' \in {EndCheck(x) :
                                x \in Handle(c, [s EXCEPT !.cmds = @ + 1,
                                                          !.song_ended_flag = FALSE])}
    /\ UNCHANGED tuiVars

\* One turn of show_progress, the polling thread started at line 307 and
\* alive while the inner loop runs: when playing it reads get_pos(); a
\* position that is not None and not negative is stored in current_pos,
\* any other makes it set song_ended_flag when the backend is not busy.
CliShowProgress ==
    /\ cli.pc = "inner"
    /\ cli.playing
    /\ \E t \in RawTimes :
         LET pos == vlc_get_pos(t)
         IN IF pos >= 0
            THEN cli' = [cli EXCEPT !.pos = pos]
            ELSE IF cli.state # "playing"
                 THEN cli' = [cli EXCEPT !.song_ended_flag = TRUE]
                 ELSE cli' = cli
    /\ UNCHANGED tuiVars

NextCli ==
    \/ CliLoad
    \/ CliTrackEnds
    \/ CliCommand
    \/ CliShowProgress

\* The command-line player.
SpecCli == InitCli /\ [][NextCli]_vars

\* The command-line player with its threads scheduled fairly: the polling
\* thread keeps polling and the main loop keeps running; the user need not
\* enter anything.
SpecCliLive == SpecCli /\ WF_vars(CliShowProgress) /\ WF_vars(CliLoad)

\* ------------------------------- the backend wrapper alone, core/player.py
\* Every variable but the wrapper's and the event in flight.
restVars == <<listVars, on_disk, stateVars, modeVars, song_end_flag, poll_pending,
              flag_track, stop_threads, lock, pc, localVars, tasks, cmds,
              histVars, cli, fault>>

\* A VLCMusic object has been constructed; no controller is running.
InitWrapper ==
    /\ full_playlist = <<>>
    /\ playlist = <<>>
    /\ search = EmptyTerm
    /\ on_disk = Tracks
    /\ current_song_path = None
    /\ playing = FALSE
    /\ paused = FALSE
    /\ shuffle = FALSE
    /\ repeat_mode = "off"
    /\ song_end_flag = FALSE
    /\ stop_threads = FALSE
    /\ lock = "free"
    /\ player = NewPlayer
    /\ vlc_event = None
    /\ poll_pending = None
    /\ pc = [ui |-> "off", mon |-> "off"]
    /\ path = [ui |-> None, mon |-> None]
    /\ m_idx = 0
    /\ ui_ft = FALSE
    /\ ui_old = NoSwap
    /\ tasks = 0
    /\ cmds = 0
    /\ flag_track = None
    /\ m_end = None
    /\ last_cmd = NoCmd
    /\ skips = 0
    /\ owed = 0
    /\ cli = CliOff
    /\ fault = NoFault
    /\ calls = <<>>

\* A caller loads file f.
WrapperLoad ==
    /\ \E f \in Tracks : player' = VLCMusic_load(player, f)
    /\ UNCHANGED <<vlc_event, calls, restVars>>

\* A caller registers callback c, or None.
WrapperAddEndCallback ==
    /\ \E c \in Callbacks \cup {None} : player' = VLCMusic_add_end_callback(player, c)
    /\ UNCHANGED <<vlc_event, calls, restVars>>

\* A caller starts playback.
WrapperPlay ==
    /\ player' = VLCMusic_play(player)
    /\ player' # player
    /\ UNCHANGED <<vlc_event, calls, restVars>>

\* A caller stops playback.
WrapperStop ==
    /\ player' = VLCMusic_stop(player)
    /\ player' # player
    /\ UNCHANGED <<vlc_event, calls, restVars>>

\* The media reaches its end while playing: VLC raises one
\* MediaPlayerEndReached event.
WrapperEndReached ==
    /\ player.state = "playing"
    /\ vlc_event = None
    /\ player' = [player EXCEPT !.state = "ended"]
    /\ vlc_event' = player.media
    /\ UNCHANGED <<calls, restVars>>

\* The event is delivered on the VLC event thread to every listener.
WrapperEndEvent ==
    /\ vlc_event # None
    /\ vlc_event' = None
    /\ calls' = vlc_end_event(player)
    /\ UNCHANGED <<player, restVars>>

NextWrapper ==
    \/ WrapperLoad
    \/ WrapperAddEndCallback
    \/ WrapperPlay
    \/ WrapperStop
    \/ WrapperEndReached
    \/ WrapperEndEvent

\* The backend wrapper under any sequence of calls.
SpecWrapper == InitWrapper /\ [][NextWrapper]_vars

\* ------------------- the tkinter variant's wrapper, wavrun_vlc_dark.py
\* The listeners the bounded check lets the event manager hold.
MaxListeners == 3

\* VLCMusic.__init__ of wavrun_vlc_dark.py: no media, no callback, no
\* listener attached yet and _events_attached False.
DarkNewPlayer ==
    [media |-> None, state |-> "idle", cb |-> None, listeners |-> 0,
     attached |-> FALSE]

\* load: the new media is set on the same player and _events_attached is
\* reset; the listeners of the player's event manager stay attached.
DarkVLCMusic_load(p, f) == [p EXCEPT !.media = f, !.attached = FALSE]

\* add_end_callback: the callback replaces the registered one, and a new
\* listener is attached unless _events_attached is set.
DarkVLCMusic_add_end_callback(p, c) ==
    IF p.attached
    THEN [p EXCEPT !.cb = c]
    ELSE [p EXCEPT !.cb = c, !.listeners = @ + 1, !.attached = TRUE]

\* One MediaPlayerEndReached event: every attached listener runs _raise_end,
\* which calls the registered callback when it is callable.
dark_end_event(p) ==
    [i \in 1..(IF p.cb # None THEN p.listeners ELSE 0) |-> p.cb]

DarkVLCMusic_play(p) ==
    IF p.media = None THEN p ELSE [p EXCEPT !.state = "playing"]

DarkVLCMusic_stop(p) ==
    IF p.state = "idle" THEN p ELSE [p EXCEPT !.state = "stopped"]

\* A VLCMusic object of the tkinter variant has been constructed.
InitDark ==
    /\ full_playlist = <<>>
    /\ playlist = <<>>
    /\ search = EmptyTerm
    /\ on_disk = Tracks
    /\ current_song_path = None
    /\ playing = FALSE
    /\ paused = FALSE
    /\ shuffle = FALSE
    /\ repeat_mode = "off"
    /\ song_end_flag = FALSE
    /\ stop_threads = FALSE
    /\ lock = "free"
    /\ player = DarkNewPlayer
    /\ vlc_event = None
    /\ poll_pending = None
    /\ pc = [ui |-> "off", mon |-> "off"]
    /\ path = [ui |-> None, mon |-> None]
    /\ m_idx = 0
    /\ ui_ft = FALSE
    /\ ui_old = NoSwap
    /\ tasks = 0
    /\ cmds = 0
    /\ flag_track = None
    /\ m_end = None
    /\ last_cmd = NoCmd
    /\ skips = 0
    /\ owed = 0
    /\ cli = CliOff
    /\ fault = NoFault
    /\ calls = <<>>

\* A caller loads file f.
DarkLoad ==
    /\ \E f \in Tracks : player' = DarkVLCMusic_load(player, f)
    /\ UNCHANGED <<vlc_event, calls, restVars>>

\* A caller registers callback c, or None.
DarkAddEndCallback ==
    /\ player.attached \/ player.listeners < MaxListeners
    /\ \E c \in Callbacks \cup {None} :
         player' = DarkVLCMusic_add_end_callback(player, c)
    /\ UNCHANGED <<vlc_event, calls, restVars>>

\* WavRunApp._play_index on an existing file: stop, load, add_end_callback
\* with the closure that sets song_ended, play.
DarkPlayIndex ==
    /\ player.listeners < MaxListeners
    /\ \E f \in Tracks :
         player' = DarkVLCMusic_play(
                     DarkVLCMusic_add_end_callback(
                       DarkVLCMusic_load(DarkVLCMusic_stop(player), f), on_end))
    /\ UNCHANGED <<vlc_event, calls, restVars>>

\* A caller stops playback.
DarkStop ==
    /\ player' = DarkVLCMusic_stop(player)
    /\ player' # player
    /\ UNCHANGED <<vlc_event, calls, restVars>>

\* The media reaches its end while playing: VLC raises one
\* MediaPlayerEndReached event.
DarkEndReached ==
    /\ player.state = "playing"
    /\ vlc_event = None
    /\ player' = [player EXCEPT !.state = "ended"]
    /\ vlc_event' = player.media
    /\ UNCHANGED <<calls, restVars>>

\* The event is delivered on the VLC event thread to every listener.
DarkEndEvent ==
    /\ vlc_event # None
    /\ vlc_event' = None
    /\ calls' = dark_end_event(player)
    /\ UNCHANGED <<player, restVars>>

NextDark ==
    \/ DarkLoad
    \/ DarkAddEndCallback
    \/ DarkPlayIndex
    \/ DarkStop
    \/ DarkEndReached
    \/ DarkEndEvent

\* The tkinter variant's wrapper under any sequence of calls.
SpecDark == InitDark /\ [][NextDark]_vars

\* ------------------------------------ saving and starting again
\* The application after a first start without a config file, mounted: the
\* scan found every track and last_index defaulted to 0.
InitResume ==
    /\ full_playlist = AllTracks
    /\ playlist = AllTracks
    /\ search = EmptyTerm
    /\ on_disk \in SUBSET Tracks
    /\ current_song_path = on_mount_resume(0, AllTracks, AllTracks, None)
    /\ playing = FALSE
    /\ paused = FALSE
    /\ shuffle = FALSE
    /\ repeat_mode = "off"
    /\ song_end_flag = FALSE
    /\ stop_threads = FALSE
    /\ lock = "free"
    /\ player = NewPlayer
    /\ vlc_event = None
    /\ poll_pending = None
    /\ pc = [ui |-> "idle", mon |-> "off"]
    /\ path = [ui |-> None, mon |-> None]
    /\ m_idx = 0
    /\ ui_ft = FALSE
    /\ ui_old = NoSwap
    /\ tasks = 0
    /\ cmds = 0
    /\ flag_track = None
    /\ m_end = None
    /\ last_cmd = NoCmd
    /\ skips = 0
    /\ owed = 0
    /\ cli = CliOff
    /\ fault = NoFault
    /\ calls = <<>>

\* action_save, then the process ends and the application is started again
\* on the files it wrote: __init__ reads last_index from the config and the
\* catalog from the playlist file, and on_mount scans when that catalog is
\* empty and resumes.
SaveAndRelaunch ==
    /\ UserCommand
    /\ LET li == action_save_last_index(current_song_path, full_playlist)
       IN \E c \in Catalogs :
            LET pl == IF full_playlist = <<>> THEN c ELSE full_playlist
            IN /\ full_playlist' = pl
               /\ playlist' = pl
               /\ current_song_path' = on_mount_resume(li, pl, pl, None)
    /\ search' = EmptyTerm
    /\ playing' = FALSE
    /\ paused' = FALSE
    /\ shuffle' = FALSE
    /\ repeat_mode' = "off"
    /\ song_end_flag' = FALSE
    /\ stop_threads' = FALSE
    /\ lock' = "free"
    /\ player' = NewPlayer
    /\ vlc_event' = None
    /\ poll_pending' = None
    /\ pc' = [ui |-> "idle", mon |-> "off"]
    /\ path' = [ui |-> None, mon |-> None]
    /\ m_idx' = 0
    /\ ui_ft' = FALSE
    /\ ui_old' = NoSwap
    /\ tasks' = 0
    /\ flag_track' = None
    /\ m_end' = None
    /\ last_cmd' = NoCmd
    /\ skips' = 0
    /\ owed' = 0
    /\ UNCHANGED on_disk
    /\ UNCHANGED outerVars

NextResume ==
    \/ SaveAndRelaunch
    \/ ActionPlayIndex
    \/ ActionPlayPause
    \/ ActionPlayPauseReset
    \/ ActionNext
    \/ TaskNext
    \/ ActionPrev
    \/ ActionShuffle
    \/ ActionRepeat
    \/ OnInputChanged
    \/ ActionClearSearch
    \/ ApplyFolder
    \/ ActionSaveAndExit
    \/ ExitJoin
    \/ ExitStop
    \/ \E t \in {"ui", "mon"} : PiLock(t)
    \/ \E t \in {"ui", "mon"} : PiLoad(t)
    \/ \E t \in {"ui", "mon"} : PiPlay(t)
    \/ \E t \in {"ui", "mon"} : PiPlaying(t)
    \/ PiPausedUI
    \/ PiPausedMon
    \/ PiUpdateUIMon
    \/ MonLoop
    \/ MonClear
    \/ MonIdx
    \/ MonPlay
    \/ MonSetCurrent
    \/ MonSkip
    \/ MonReplay
    \/ MonAdvance
    \/ VlcEndReached
    \/ VlcEndEvent

\* The controller with sessions that save and start again.
SpecResume == InitResume /\ [][NextResume]_vars

\* ------------------------------------------------------------ the volume
\* A volume is counted in hundredths: 70 stands for the float 0.7.  The
\* arguments tried on set_volume, from below 0.0 to above 1.0.
Volumes == {-150, -1, 0, 1, 29, 50, 99, 100, 101, 250}

\* int(x * 100) on the float x that stands for h hundredths, 0 <= h <= 100:
\* h, or h - 1 when the float or its product lies just below (0.29 gives 28,
\* the 0.8999999999999999 left by repeated steps of 0.1 gives 89).
int_percent(h) == IF h > 0 /\ h < 100 THEN {h - 1, h} ELSE {h}

\* core/player.py set_volume as it would be without its clamp, which is
\* vlc_player.py's set_volume.
VLCMusic_set_volume_raw(v) == {v}

\* core/player.py set_volume: the values audio_set_volume can receive for
\* argument v, int(max(0.0, min(1.0, float(v))) * 100).
VLCMusic_set_volume(v) == int_percent(Max(0, Min(100, v)))

\* vlc_player.py set_volume, the command-line player's backend: int(v * 100)
\* for a v the caller keeps between 0.0 and 1.0; a float just below 1.0
\* gives 99.
vlc_set_volume(v) == IF v > 0 THEN {v - 1, v} ELSE {v}

\* A VLCMusic object of core/player.py with the volume last forwarded:
\* __init__ sets 0.7.
VolPlayer ==
    [media |-> None, state |-> "idle", cb |-> None, listeners |-> 1,
     volume |-> 70]

\* play_music with its volume (line 203) and the value its backend received
\* (line 204).
CliVolStart(n, ex, ci) == CliStart(n, ex, ci) @@ [volume |-> 70, sent |-> 70]

\* Either program has been started: the wrapper of core/player.py has been
\* constructed, or play_music runs with its own backend.
InitVolume ==
    /\ full_playlist = <<>>
    /\ playlist = <<>>
    /\ search = EmptyTerm
    /\ on_disk = Tracks
    /\ current_song_path = None
    /\ playing = FALSE
    /\ paused = FALSE
    /\ shuffle = FALSE
    /\ repeat_mode = "off"
    /\ song_end_flag = FALSE
    /\ stop_threads = FALSE
    /\ lock = "free"
    /\ player = VolPlayer
    /\ vlc_event = None
    /\ poll_pending = None
    /\ pc = [ui |-> "off", mon |-> "off"]
    /\ path = [ui |-> None, mon |-> None]
    /\ m_idx = 0
    /\ ui_ft = FALSE
    /\ ui_old = NoSwap
    /\ tasks = 0
    /\ cmds = 0
    /\ flag_track = None
    /\ m_end = None
    /\ last_cmd = NoCmd
    /\ skips = 0
    /\ owed = 0
    /\ \/ cli = CliOff
       \/ \E n \in Songs, ex \in SUBSET Songs, ci \in Songs :
            /\ ex \subseteq 1..n
            /\ ci <= n
            /\ ci = 1 \/ ci \in ex
            /\ cli = CliVolStart(n, ex, ci)
    /\ fault = NoFault
    /\ calls = <<>>

\* A caller of core/player.py's wrapper sets the volume to v.
WrapperSetVolume ==
    /\ cli = CliOff
    /\ \E v \in Volumes : \E k \in VLCMusic_set_volume(v) :
         player' = [player EXCEPT !.volume = k]
    /\ UNCHANGED <<vlc_event, calls, restVars>>

\* The volume commands of the inner loop, lines 419-427.
VolumeCommands == {"volume_up", "volume_down"}

\* min(1.0, volume + 0.1) and max(0.0, volume - 0.1).
cli_volume(c, v) ==
    IF c = "volume_up" THEN Min(100, v + 10) ELSE Max(0, v - 10)

\* The handling of volume command c: the new volume is stored and sent to
\* the backend.
HandleVolume(c, s) ==
    {[s EXCEPT !.volume = cli_volume(c, s.volume), !.sent = k] :
        k \in vlc_set_volume(cli_volume(c, s.volume))}

\* One turn of the inner loop that reads a volume command: the flag is
\* cleared, the command is handled and the busy test of line 555 follows.
CliVolume ==
    /\ cli.pc = "inner"
    /\ ~(cli.song_ended_flag /\ cli.playing)
    /\ cli.cmds < MaxCmds
    /\ \E c \in VolumeCommands :
         cli' \in {EndCheck(x) :
                     x \in HandleVolume(c, [cli EXCEPT !.adv = "none",
                                                       !.cmds = @ + 1,
                                                       !.song_ended_flag = FALSE])}
    /\ UNCHANGED tuiVars

NextVolume ==
    \/ WrapperSetVolume
    \/ cli = CliOff /\ WrapperLoad
    \/ cli = CliOff /\ WrapperPlay
    \/ cli = CliOff /\ WrapperStop
    \/ CliLoad
    \/ CliTrackEnds
    \/ CliCommand
    \/ CliShowProgress
    \/ CliVolume

\* Either program with its volume followed.
SpecVolume == InitVolume /\ [][NextVolume]_vars

\* ------------------------------------------------------------- claims
Last(s) == s[Len(s)]

\* A step that carries out the replay of repeat one: _play_index returns at
\* its bounds check or selects its track, on the monitor thread or through
\* replay on the event loop.
ReplayStep ==
    \/ pc.mon = "m_play" /\ pc'.mon = "m_loop"
    \/ pc.mon \in {"m_set", "m_replay"} /\ pc'.mon # pc.mon

\* A step that carries out the monitor's answer to a consumed end signal:
\* the replay of repeat one or _advance_to_next.
EndAdvanceStep ==
    \/ pc.mon = "m_advance" /\ pc'.mon # pc.mon
    \/ ReplayStep

\* Thread t starts the load sequence of track p.
LoadStarted(t, p) == pc'[t] = "pi_lock" /\ path'[t] = p

\* No handler is running, no task is pending and the monitor is between
\* two turns of its loop (or not running).
Settled ==
    /\ pc.ui = "idle"
    /\ pc.mon \in {"off", "m_loop", "m_done"}
    /\ tasks = 0

\* Settled, with the monitor running and no signal anywhere on its way.
Quiescent ==
    /\ Settled
    /\ pc.mon = "m_loop"
    /\ ~stop_threads
    /\ ~song_end_flag
    /\ vlc_event = None
    /\ poll_pending = None

\* C1: an end signal raised for track X is discarded when, at the time the
\* advance is carried out, the current track is another track Y that the
\* backend is playing: nothing is loaded or stopped and Y stays current.
StaleEndDiscarded ==
    [][(/\ EndAdvanceStep
        /\ m_end # current_song_path
        /\ player.media = current_song_path
        /\ player.state = "playing")
        => /\ pc'.mon = "m_loop"
           /\ pc'.ui = pc.ui
           /\ UNCHANGED <<current_song_path, playing, player, tasks>>]_vars

\* C2: every completion is answered by exactly one advance: never more
\* advances than completions, and as many once everything has settled.
ExactlyOneAdvance ==
    /\ owed >= 0
    /\ Quiescent => owed = 0

\* C3: no stop() of action_next or _advance_to_next lands between the load()
\* and the play() of a running _play_index, nor between its play() and its
\* setting of playing.
LoadSequenceAtomic ==
    \A t \in {"ui", "mon"} :
        pc[t] \in {"pi_play", "pi_playing"}
            => ~(/\ last_cmd.op = "stop"
                 /\ last_cmd.by # t
                 /\ last_cmd.src \in {"next", "advance"})

\* C4: a step of the monitor thread itself writes none of current_song_path,
\* playing and paused and sends no transport command to the backend.
SingleWriter ==
    [][(pc.mon \notin {"m_advance", "m_replay", "m_blocked"} /\ pc'.mon # pc.mon
        /\ pc'.ui = pc.ui)
        => UNCHANGED <<current_song_path, playing, paused, player, last_cmd>>]_vars

\* C5: when every file of the catalog is missing, the chain of skips is at
\* most as long as the catalog.
SkipsBounded ==
    (Range(full_playlist) \cap on_disk = {}) => skips <= Len(full_playlist)

\* C6: _play_index loads only into a stopped backend, and whenever things
\* have settled the track the backend is playing or holding paused is the
\* one named by current_song_path.
BackendPlaysCurrent ==
    /\ \A t \in {"ui", "mon"} :
           pc[t] = "pi_load" => player.state \in {"idle", "stopped"}
    /\ (Settled /\ player.state \in {"playing", "paused"})
           => player.media = current_song_path

\* C7: a change of the search term, and clearing it, leave the current song,
\* playing, paused, shuffle, repeat_mode and the catalog as they are and
\* send nothing to the backend.
FilterLeavesPlayback ==
    [][(OnInputChanged \/ ActionClearSearch)
        => UNCHANGED <<current_song_path, playing, paused, shuffle, repeat_mode,
                       full_playlist, player, last_cmd>>]_vars

\* C7, its case: a term is in the search box, and the song that is current
\* and playing in the backend is not in the view.
FilteredOutWhilePlaying ==
    /\ pc.ui = "idle"
    /\ ~search.empty
    /\ playing
    /\ current_song_path # None
    /\ current_song_path \notin Range(playlist)
    /\ current_song_path \in Range(full_playlist)
    /\ player.state = "playing"
    /\ player.media = current_song_path

\* _advance_to_next is carried out for the last song of the catalog with
\* shuffle off.
AdvanceFromLast ==
    /\ pc.mon = "m_advance"
    /\ pc'.mon # "m_advance"
    /\ ~shuffle
    /\ full_playlist # <<>>
    /\ current_song_path = Last(full_playlist)

\* C8: with repeat all and shuffle off, the advance from the last song of
\* the catalog makes the first song of the catalog current and, its file
\* being there, starts its load sequence; and a load sequence on the UI
\* thread loads and plays the song it was started for.
AdvanceWrapsToFirst ==
    /\ [][(AdvanceFromLast /\ repeat_mode = "all")
           => /\ current_song_path' = full_playlist[1]
              /\ full_playlist[1] \in on_disk => LoadStarted("ui", full_playlist[1])
              /\ UNCHANGED <<full_playlist, search>>]_vars
    /\ [](pc.ui \in {"pi_play", "pi_playing", "pi_paused"}
           => player.media = path.ui)
    /\ [](pc.ui \in {"pi_playing", "pi_paused"}
           => player.state \in {"playing", "ended"})

\* C8, its case: an advance from the last song of a catalog of two or more
\* under repeat all has just selected the first song, which the active
\* filter excludes, and started its load sequence.
AdvanceWrappedToFirst ==
    /\ pc.mon = "m_blocked"
    /\ pc.ui = "pi_lock"
    /\ ~ui_ft
    /\ ui_old.swap
    /\ ~search.empty
    /\ repeat_mode = "all"
    /\ ~shuffle
    /\ Len(full_playlist) >= 2
    /\ m_end = Last(full_playlist)
    /\ current_song_path = full_playlist[1]
    /\ path.ui = full_playlist[1]

\* C9: with repeat off and shuffle off, the advance from the last song of
\* the catalog stops the backend and sets playing to False; it starts no
\* load sequence and leaves the loaded media and the current song.
AdvanceStopsAtEnd ==
    [][(AdvanceFromLast /\ repeat_mode = "off")
        => /\ player'.state = "stopped"
           /\ player'.media = player.media
           /\ last_cmd' = Cmd("stop", "ui", "advance")
           /\ playing' = FALSE
           /\ current_song_path' = current_song_path
           /\ pc'.ui = "idle"
           /\ tasks' = tasks]_vars

\* C9, its case: the advance from the last song of a catalog of two or more
\* has just stopped playback.
AdvanceStoppedAtEnd ==
    /\ last_cmd = Cmd("stop", "ui", "advance")
    /\ pc.ui = "idle"
    /\ player.state = "stopped"
    /\ ~playing
    /\ repeat_mode = "off"
    /\ ~shuffle
    /\ Len(full_playlist) >= 2
    /\ current_song_path = Last(full_playlist)
    /\ m_end = current_song_path

\* C10: with repeat one, the replay carried out for the end of the current
\* song i (the song whose end signal was consumed) keeps i current and, its
\* file being there, starts the load sequence of i.
RepeatOneReplays ==
    [][(/\ ReplayStep
        /\ repeat_mode = "one"
        /\ current_song_path # None
        /\ m_end = current_song_path)
        => /\ current_song_path' = current_song_path
           /\ current_song_path \in on_disk
                => \/ LoadStarted("mon", current_song_path)
                   \/ LoadStarted("ui", current_song_path)]_vars

QueueHeadPlayedNext ==
    [][(/\ cli.pc = "inner"
        /\ cli.queue_list # <<>>
        /\ Head(cli.queue_list) \in cli.exists
        /\ cli'.adv \in {"next", "end", "replay"})
        => /\ cli'.queue_list = Tail(cli.queue_list)
           /\ cli'.pc = "outer"
           /\ cli'.play_index <= Len(cli'.play_order)
           /\ cli'.play_order[cli'.play_index] = Head(cli.queue_list)]_vars

\* The filtered view: the tracks of the catalog that the active search term
\* matches, in catalog order.
FilteredView == FilterPlaylist(full_playlist, search)

\* C13: with a search term active and shuffle off, the user's Next selects
\* the first track of the filtered view when the current song is not in it
\* and the successor of the current song in the view when there is one; a
\* track that Next selects is always a member of the filtered view.
NextInsideView ==
    [][(ActionNext /\ ~search.empty /\ ~shuffle)
        => LET cur == IndexOf(FilteredView, current_song_path)
           IN /\ (cur = 0 /\ FilteredView # <<>>)
                    => current_song_path' = FilteredView[1]
              /\ (cur >= 1 /\ cur < Len(FilteredView))
                    => current_song_path' = FilteredView[cur + 1]
              /\ current_song_path' # current_song_path
                    => current_song_path' \in Range(FilteredView)]_vars

\* C14: with shuffle off and repeat off, _advance_to_next run for a current
\* song that is not the last of the catalog makes its successor in catalog
\* order current, stops nothing and, the successor's file being there,
\* starts its load sequence, whatever the view holds; the view is the one of
\* before the advance, kept aside while the full playlist is swapped in and
\* put back when the load sequence, which plays the successor, ends.
AdvanceIgnoresFilter ==
    /\ [][(/\ pc.mon = "m_advance"
           /\ pc'.mon # "m_advance"
           /\ ~shuffle
           /\ repeat_mode = "off"
           /\ IndexOf(full_playlist, current_song_path) >= 1
           /\ IndexOf(full_playlist, current_song_path) < Len(full_playlist))
          => LET succ == full_playlist[IndexOf(full_playlist, current_song_path) + 1]
             IN /\ current_song_path' = succ
                /\ player' = player
                /\ playing' = playing
                /\ UNCHANGED <<full_playlist, search>>
                /\ IF succ \in on_disk
                   THEN /\ LoadStarted("ui", succ)
                        /\ ~ui_ft'
                        /\ IF ui_old'.swap
                           THEN ui_old'.pl = playlist /\ playlist' = full_playlist
                           ELSE playlist' = playlist
                   ELSE playlist' = playlist]_vars
    /\ [][(pc.ui = "pi_paused" /\ pc.mon = "m_blocked" /\ ~ui_ft /\ pc'.ui # "pi_paused")
          => /\ playlist' = IF ui_old.swap THEN ui_old.pl ELSE playlist
             /\ player.media = current_song_path
             /\ playing'
             /\ UNCHANGED <<current_song_path, player>>]_vars

\* C14, its case: an advance under repeat off from a song the filter
\* excludes has loaded and started the successor, which the filter excludes
\* too, and is about to put the view back.
AdvancedPastFilter ==
    /\ pc.mon = "m_blocked"
    /\ pc.ui = "pi_paused"
    /\ ~ui_ft
    /\ ui_old.swap
    /\ ~search.empty
    /\ ~shuffle
    /\ repeat_mode = "off"
    /\ m_end # None
    /\ m_end \notin Range(ui_old.pl)
    /\ path.ui \notin Range(ui_old.pl)
    /\ IndexOf(full_playlist, path.ui) = IndexOf(full_playlist, m_end) + 1
    /\ player.media = path.ui
    /\ player.state = "playing"
    /\ playing

\* C15: an end-of-track advance (_advance_to_next) that runs with shuffle off
\* while the current song is None or not in the catalog, the catalog not
\* being empty, makes the first track of the catalog current and, its file
\* being there, starts its load sequence.
AdvanceWithoutCurrentStartsAtFirst ==
    [][(/\ pc.mon = "m_advance"
        /\ pc'.mon # "m_advance"
        /\ ~shuffle
        /\ full_playlist # <<>>
        /\ current_song_path \notin Range(full_playlist))
        => /\ current_song_path' = full_playlist[1]
           /\ full_playlist[1] \in on_disk => LoadStarted("ui", full_playlist[1])]_vars

\* C16: when a stop() of _play_index, of Next at the end of the list or of
\* the advance at the end of the list has stopped the backend, song_end_flag
\* is clear.
StopClearsEndSignal ==
    [][(/\ player'.state = "stopped"
        /\ player.state # "stopped"
        /\ last_cmd'.op = "stop"
        /\ last_cmd'.src \in {"play_index", "next", "advance"})
        => ~song_end_flag']_vars

\* C17: with a current song, action_play_pause sets playing only from
\* Paused, a track being loaded and paused in the backend, and sets paused
\* only from Playing; from Stopped it does not set playing without a load
\* sequence.
PlayPauseOnlyToggles ==
    [][(ActionPlayPause /\ current_song_path # None)
        => /\ (playing' /\ ~playing) => (paused /\ player.state = "paused")
           /\ (paused' /\ ~paused) => playing]_vars

\* C18: with an empty catalog (and so an empty view) play/pause, Next, Prev
\* and play-by-index change none of playing, paused and current_song_path
\* and send nothing to the backend.
EmptyCatalogNoOp ==
    [][((ActionPlayPause \/ ActionNext \/ ActionPrev \/ ActionPlayIndex)
         /\ full_playlist = <<>> /\ playlist = <<>>)
        => UNCHANGED <<current_song_path, playing, paused, player, last_cmd>>]_vars

\* C19: when the backend's load fails inside _play_index, the controller
\* recovers as for a missing file: the lock is released, an advance to
\* another track is scheduled, and playing is not left True for the track
\* that was never started.
LoadFailureRecovers ==
    [][(\E t \in {"ui", "mon"} : PiLoadFails(t))
        => /\ lock' = "free"
           /\ tasks' = tasks + 1
           /\ ~playing']_vars

\* C20: a fault inside the monitor loop body or inside the end callback never
\* ends the monitor thread: the thread is finished only when stop_threads is
\* set; a fault in the loop body takes the thread, holding no lock, back to
\* the top of its loop, where with stop_threads unset and the event loop idle
\* its next turn can run; a fault in the end callback stays inside
\* _raise_end and changes no thread's place.
MonitorSurvivesFaults ==
    /\ [](pc.mon = "m_done" => stop_threads)
    /\ [][MonFault => (pc'.mon = "m_loop" /\ lock' # "mon")]_vars
    /\ []((pc.mon = "m_loop" /\ ~stop_threads /\ pc.ui = "idle") => ENABLED MonLoop)
    /\ [][CallbackFault => UNCHANGED <<pc, lock, stop_threads>>]_vars

\* C20, its case: after a fault inside the loop body, with stop_threads
\* unset, the monitor has run another turn of its loop and consumed an end
\* signal.
MonitorRanAfterFault ==
    /\ fault.kind = "mon"
    /\ fault.n >= 1
    /\ ~stop_threads
    /\ pc.mon = "m_advance"

\* C21: shutdown runs in order: action_save_and_exit first sets stop_threads
\* and sends nothing to the backend, then the join, which returns whatever
\* the monitor is doing, then the backend's stop; the stop of shutdown is
\* never sent before the flag is set and the join has returned.
ShutdownInOrder ==
    /\ [][ActionSaveAndExit
           => /\ stop_threads'
              /\ pc'.ui = "x_join"
              /\ UNCHANGED <<player, last_cmd>>]_vars
    /\ [](pc.ui = "x_join" => ENABLED ExitJoin)
    /\ [][ExitJoin
           => /\ stop_threads
              /\ pc'.ui = "x_stop"
              /\ UNCHANGED <<player, last_cmd>>]_vars
    /\ [][ExitStop => (stop_threads /\ pc.ui = "x_stop" /\ pc'.ui = "exited")]_vars
    /\ [](pc.ui \in {"x_join", "x_stop", "exited"} => stop_threads)
    /\ [](last_cmd.src = "exit" => (pc.ui = "exited" /\ stop_threads))

\* C21, its case: shutdown has run to its end while a track was playing; the
\* monitor saw the flag and finished, and the backend was stopped last.
ShutdownCompleted ==
    /\ pc.ui = "exited"
    /\ stop_threads
    /\ pc.mon = "m_done"
    /\ playing
    /\ player.state = "stopped"
    /\ last_cmd = Cmd("stop", "ui", "exit")

IsSubsequence(v, f) ==
    \E g \in [1..Len(v) -> 1..Len(f)] :
        /\ \A i, j \in 1..Len(v) : i < j => g[i] < g[j]
        /\ \A i \in 1..Len(v) : v[i] = f[g[i]]

\* C23: whenever the event loop is idle (every handler has returned), the
\* view is an order-preserving subsequence of the catalog: it holds no track
\* the catalog does not hold.
ViewWithinCatalog ==
    pc.ui = "idle"
        => /\ IsSubsequence(playlist, full_playlist)
           /\ Range(playlist) \subseteq Range(full_playlist)

\* C23, its case: under an active filter an advance has swapped the full
\* playlist in, played a track outside the view and put the view back; the
\* view is a proper, non-empty part of the catalog.
ViewRestoredAfterSwap ==
    /\ pc.ui = "idle"
    /\ pc.mon = "m_loop"
    /\ ~search.empty
    /\ playlist # <<>>
    /\ playlist # full_playlist
    /\ m_end # None
    /\ playing
    /\ player.state = "playing"
    /\ player.media = current_song_path
    /\ current_song_path \notin Range(playlist)
    /\ last_cmd = Cmd("play", "ui", "play_index")

\* C24: a folder change made while a search term is in the box leaves as the
\* view exactly the tracks of the new catalog that match the term.
FolderChangeRefilters ==
    [][(ApplyFolder /\ ~search.empty)
        => /\ search' = search
           /\ playlist' = FilterPlaylist(full_playlist', search')]_vars

\* C25: the current song is None or the path of an entry of the catalog.
CurrentInCatalog ==
    current_song_path = None \/ current_song_path \in Range(full_playlist)

\* The tracks action_next can select in state (view, current song, modes),
\* None standing for "nothing selected".
NextChoices(view, cur, shuf, rep) ==
    IF view = <<>> THEN {None}
    ELSE {IF i = 0 THEN None ELSE view[i] :
             i \in NextIndices(get_current_index(cur, view), Len(view), shuf, rep)}

\* The tracks the auto-advance rules select over the catalog from cur.
AdvanceChoices(full, cur, shuf, rep) ==
    {IF j = 0 THEN None ELSE full[j] :
        j \in AdvanceIndices(find_song_in_full_playlist(full, cur), Len(full), shuf, rep)}

\* C26: when _advance_to_next has targeted a track whose file is missing and
\* scheduled the skip, the candidates of the scheduled step, computed from
\* the state the advance leaves, are those of the auto-advance rules over
\* the full catalog with the skipped track as current.
SkipFollowsAdvanceRules ==
    [][(MonAdvance /\ tasks' = tasks + 1)
        => NextChoices(playlist', current_song_path', shuffle', repeat_mode')
             = AdvanceChoices(full_playlist', current_song_path', shuffle',
                              repeat_mode')]_vars

\* C27: in the command-line player, once the backend has stopped being busy
\* while the loop's status is playing, the polling thread eventually sets
\* song_ended_flag, unless the user enters a command first.
PollingDetectsEnd ==
    \A k \in 0..MaxCmds :
        (cli.pc = "inner" /\ cli.state = "ended" /\ cli.playing /\ cli.cmds = k)
            ~> (cli.song_ended_flag \/ cli.cmds # k)

\* C28: an end signal set while the monitor thread runs and stop_threads is
\* unset leads to the monitor having consumed it and making the call of its
\* answer (_advance_to_next posted to the event loop, or the replay of
\* repeat one), unless shutdown begins.
EndSignalAnswered ==
    (song_end_flag /\ pc.mon \notin {"off", "m_done"} /\ ~stop_threads)
        ~> (stop_threads \/ pc.mon \in {"m_advance", "m_play", "m_replay"})

\* C29: the user's Next applies repeat within the filtered view: with
\* shuffle off, from the last track of the view it selects the first track
\* of the view under repeat all (starting its load sequence when the file is
\* there) and otherwise stops the backend, sets playing to False and leaves
\* the current song; with shuffle on the track it selects is in the view.
NextRepeatsWithinView ==
    [][ActionNext
        => LET cur == IndexOf(FilteredView, current_song_path)
           IN /\ (~shuffle /\ cur >= 1 /\ cur = Len(FilteredView) /\ repeat_mode = "all")
                    => /\ current_song_path' = FilteredView[1]
                       /\ FilteredView[1] \in on_disk
                            => LoadStarted("ui", FilteredView[1])
              /\ (~shuffle /\ cur >= 1 /\ cur = Len(FilteredView) /\ repeat_mode # "all")
                    => /\ last_cmd' = Cmd("stop", "ui", "next")
                       /\ player'.state \in {"idle", "stopped"}
                       /\ ~playing'
                       /\ current_song_path' = current_song_path
              /\ (shuffle /\ pc'.ui = "pi_lock")
                    => path'.ui \in Range(FilteredView)]_vars

\* C30: with repeat one and a current song that is in the view, the user's
\* Next keeps that song current and, its file being there, starts its load
\* sequence again.
NextHonoursRepeatOne ==
    [][(/\ ActionNext
        /\ repeat_mode = "one"
        /\ current_song_path # None
        /\ current_song_path \in Range(playlist))
        => /\ current_song_path' = current_song_path
           /\ current_song_path \in on_disk
                => LoadStarted("ui", current_song_path)]_vars

\* C31: the user's Prev on a non-empty view either seeks to the start of the
\* track the backend holds, leaving the current song, playing, paused and
\* the backend's state, or selects the predecessor of the current song in
\* the view: from the first position, or with the current song not in the
\* view, the last position under repeat all and the first otherwise.  The
\* position selected is one of the view, and its track, the file being
\* there, starts its load sequence.
PrevWithinView ==
    [][(ActionPrev /\ playlist # <<>>)
        => LET cur == get_current_index(current_song_path, playlist)
               idx == IF cur > 1 THEN cur - 1
                      ELSE IF repeat_mode = "all" THEN Len(playlist) ELSE 1
           IN \/ /\ player.state \in {"playing", "paused"}
                 /\ last_cmd' = Cmd("set_time", "ui", "prev")
                 /\ UNCHANGED <<current_song_path, playing, paused, player,
                                playlist, pc, tasks>>
              \/ /\ idx \in 1..Len(playlist)
                 /\ current_song_path' = playlist[idx]
                 /\ UNCHANGED <<playing, paused, player, last_cmd>>
                 /\ IF playlist[idx] \in on_disk
                    THEN LoadStarted("ui", playlist[idx]) /\ tasks' = tasks
                    ELSE pc'.ui = "idle" /\ tasks' = tasks + 1]_vars

\* C31, its case: Prev has sought to the start of the current track, which
\* goes on playing.
PrevSoughtToStart ==
    /\ last_cmd = Cmd("set_time", "ui", "prev")
    /\ pc.ui = "idle"
    /\ playing
    /\ player.state = "playing"
    /\ player.media = current_song_path
    /\ playlist # <<>>

\* C32: action_repeat takes repeat_mode from off to one, from one to all and
\* from all to off, so that three applications restore it; action_shuffle
\* negates shuffle, so that two applications restore it; and neither changes
\* the other mode, the current song, playing, paused, the catalog, the view
\* or the search term, nor sends anything to the backend.
ModeCommandsOnlyToggle ==
    /\ [][ActionRepeat
           => /\ repeat_mode = "off" => repeat_mode' = "one"
              /\ repeat_mode = "one" => repeat_mode' = "all"
              /\ repeat_mode = "all" => repeat_mode' = "off"
              /\ UNCHANGED <<shuffle, current_song_path, playing, paused,
                             full_playlist, playlist, search, player, last_cmd,
                             pc, tasks>>]_vars
    /\ [][ActionShuffle
           => /\ shuffle' = ~shuffle
              /\ UNCHANGED <<repeat_mode, current_song_path, playing, paused,
                             full_playlist, playlist, search, player, last_cmd,
                             pc, tasks>>]_vars
    /\ [](repeat_mode \in {"off", "one", "all"})
    /\ [](NextRepeat(NextRepeat(NextRepeat(repeat_mode))) = repeat_mode)

\* C32, its case: while a track plays under an active filter, repeat has been
\* cycled to all and shuffle switched on.
ModesChangedWhilePlaying ==
    /\ repeat_mode = "all"
    /\ shuffle
    /\ pc.ui = "idle"
    /\ playing
    /\ player.state = "playing"
    /\ player.media = current_song_path
    /\ last_cmd = Cmd("play", "ui", "play_index")

\* C33: in every reachable state of the controller, playing and paused are
\* not both True.
NeverPlayingAndPaused == ~(playing /\ paused)

\* C34: the command-line loop reads play_order[play_index] only at a
\* position inside play_order, after any sequence of commands and under
\* every repeat mode: it never fails with an index error.
CliIndexInRange == cli.pc # "crashed"

\* C35: in the tkinter variant's wrapper at most one listener is attached to
\* MediaPlayerEndReached after any sequence of load and add_end_callback
\* calls, and one end event calls the registered callback at most once.
DarkOneListener ==
    /\ player.listeners <= 1
    /\ Len(calls) <= 1

NoLoadAfterFinalStop ==
    [][(pc.ui = "exited" /\ last_cmd' # last_cmd)
          => last_cmd'.op \notin {"load", "play"}]_vars

\* C38: the monitor's display update, the polling branch of _progress_loop
\* with _update_progress_ui, leaves the current song, playing, paused,
\* shuffle, repeat_mode, the catalog and the view unchanged and sends no
\* transport command to the backend.
DisplayUpdateReadsOnly ==
    [][MonLoop => UNCHANGED <<current_song_path, playing, paused, shuffle,
                              repeat_mode, full_playlist, playlist, search,
                              player, last_cmd, song_end_flag, tasks>>]_vars

\* C38, its case: the monitor has shown the position of a playing track and
\* found the end signal set.
DisplayUpdatedWhilePlaying ==
    /\ pc.mon = "m_clear"
    /\ pc.ui = "idle"
    /\ playing
    /\ ~stop_threads
    /\ current_song_path # None
    /\ player.media = current_song_path

\* C39: action_save stores as last_index the position of the current song in
\* the catalog, 0 when there is none or the catalog does not hold it, which
\* is 0 or a valid index of the catalog; a new start with the same non-empty
\* catalog makes the track at that index the current song, which is the saved
\* song whenever one was set and in the catalog.
SaveResumeRoundTrip ==
    [][SaveAndRelaunch
        => LET li == action_save_last_index(current_song_path, full_playlist)
               pos == find_song_in_full_playlist(full_playlist, current_song_path)
           IN /\ li = 0 \/ (0 <= li /\ li < Len(full_playlist))
              /\ (current_song_path = None \/ pos = 0) => li = 0
              /\ (current_song_path # None /\ pos >= 1) => li = pos - 1
              /\ full_playlist # <<>>
                   => /\ full_playlist' = full_playlist
                      /\ current_song_path' = full_playlist[li + 1]
              /\ (current_song_path # None /\ pos >= 1)
                   => current_song_path' = current_song_path]_vars

\* C39, its case: the second track of the catalog was the current song when
\* the session was saved, and the new start has resumed it.
ResumedSavedTrack ==
    /\ full_playlist = AllTracks
    /\ on_disk = Tracks
    /\ current_song_path = AllTracks[2]
    /\ player = NewPlayer
    /\ pc = [ui |-> "idle", mon |-> "off"]
    /\ cmds > 0

====
